---------------------------- MODULE Spec2Model ----------------------------
(***************************************************************************)
(* A model of three parts of the IBC core:                                 *)
(*   - the client events and their conversion to ABCI events               *)
(*     (crates/ibc/src/core/ics02_client/events.rs);                       *)
(*   - the connection query service                                        *)
(*     (crates/ibc/src/services/connection.rs);                            *)
(*   - the client lifecycle, the connection handshake and the packet       *)
(*     lifecycle, whose handlers are described by the specification only.  *)
(* Each part has its own specification (SpecEvents, SpecQuery, SpecConn,   *)
(* SpecClient, SpecPacket) over its own variables; the variables of the    *)
(* other parts stay at their idle values.                                  *)
(***************************************************************************)
EXTENDS Naturals, Sequences, FiniteSets

VARIABLES
    event,      \* events.rs: the client event built by a constructor
    abci,       \* events.rs: the abci::Event the conversion produced
    eventArgs,  \* events.rs: the arguments the constructor was called with
    \* connection.rs: the host store behind ibc_context
    connections,        \* connection id -> ConnectionEnd
    clientConnections,  \* client id -> connection ids of the client
    clientStates,       \* client id -> ClientState
    consensusStates,    \* client id -> heights with a stored ConsensusState
    hostHeight,         \* the host's current height
    \* connection.rs: the query server
    call,       \* the request being served
    resp,       \* the response returned for it
    reads,      \* the ibc_context methods the handler called, in order
    \* client lifecycle
    clients,          \* client id -> status, latest height, upgraded
    clientConsensus,  \* client id -> heights with a stored ConsensusState
    clientResult,     \* the last lifecycle message and its result
    \* connection handshake
    conns,      \* chain -> connection id -> ConnectionEnd
    committed,  \* chain -> the records the chain has ever stored
    done,       \* the handshake steps executed
    hsResult,   \* the last handshake message and its result
    \* packet lifecycle
    ordering,   \* the ordering of the channel
    source,     \* the sending chain's channel end and packet store
    dest,       \* the receiving chain's height and packet store
    history,    \* receptions and clearings per sequence
    pktResult,  \* the packet message of the last step and its result
    \* query handlers beside a committing host
    task,       \* the running handler: its position and what it has read
    storeAt     \* the store as committed at each host height

eventVars == <<event, abci, eventArgs>>
storeVars ==
    <<connections, clientConnections, clientStates, consensusStates, hostHeight>>
queryVars == <<call, resp, reads>>
clientVars == <<clients, clientConsensus, clientResult>>
connVars == <<conns, committed, done, hsResult>>
packetVars == <<ordering, source, dest, history, pktResult>>
interleavedVars == <<task, storeAt>>

(***************************************************************************)
(* Strings.  A String is a sequence of one-character strings, so that      *)
(* formatting, joining and encoding are computed character by character.   *)
(***************************************************************************)

\* The printable ASCII characters, code 32 (space) to code 126 (~); the
\* double quote, the backslash and the backtick are spelled by name.
Printable ==
    << " ", "!", "dquote", "#", "$", "%", "&", "'", "(", ")", "*", "+", ",", "-",
       ".", "/", "0", "1", "2", "3", "4", "5", "6", "7", "8", "9", ":", ";",
       "<", "=", ">", "?", "@", "A", "B", "C", "D", "E", "F", "G", "H", "I",
       "J", "K", "L", "M", "N", "O", "P", "Q", "R", "S", "T", "U", "V", "W",
       "X", "Y", "Z", "[", "bslash", "]", "^", "_", "btick", "a", "b", "c", "d", "e",
       "f", "g", "h", "i", "j", "k", "l", "m", "n", "o", "p", "q", "r", "s",
       "t", "u", "v", "w", "x", "y", "z", "{", "|", "}", "~" >>

\* The character of an ASCII code; the control characters, which no
\* identifier and no encoding of this model produces, are not told apart.
AsciiChar(c) == IF c \in 32..126 THEN Printable[c - 31] ELSE "ctl"

\* String::from_utf8 on a byte vector: Ok(string) when the bytes are valid
\* UTF-8.  Only the one-byte (ASCII) sequences are accepted here; a byte
\* >= 128 is reported as an error, which overstates the failures of the call.
FromUtf8(bytes) ==
    IF \A i \in 1..Len(bytes) : bytes[i] < 128
    THEN [ok |-> TRUE, value |-> [i \in 1..Len(bytes) |-> AsciiChar(bytes[i])]]
    ELSE [ok |-> FALSE, value |-> <<>>]

\* The decimal rendering of an unsigned integer ({} of a u64).
RECURSIVE DecStr(_)
DecStr(n) ==
    IF n < 10 THEN <<AsciiChar(48 + n)>>
    ELSE DecStr(n \div 10) \o <<AsciiChar(48 + (n % 10))>>

\* slice::join(sep) on a vector of strings.
RECURSIVE Join(_, _)
Join(strs, sep) ==
    IF Len(strs) = 0 THEN <<>>
    ELSE IF Len(strs) = 1 THEN strs[1]
    ELSE strs[1] \o sep \o Join(Tail(strs), sep)

(***************************************************************************)
(* Identifiers and heights.                                                *)
(***************************************************************************)

\* Height renders as "<revision_number>-<revision_height>".
HeightToString(h) ==
    DecStr(h.revision_number) \o <<"-">> \o DecStr(h.revision_height)

\* ClientId::new(client_type, counter): "<client_type>-<counter>".
ClientIdNew(client_type, counter) == client_type \o <<"-">> \o DecStr(counter)

\* ClientId::as_str / ClientType::as_str: the identifier's own string.
AsStr(id) == id

(***************************************************************************)
(* events.rs: event kinds and attribute keys.                              *)
(***************************************************************************)
CREATE_CLIENT_EVENT == "create_client"
UPDATE_CLIENT_EVENT == "update_client"
CLIENT_MISBEHAVIOUR_EVENT == "client_misbehaviour"
UPGRADE_CLIENT_EVENT == "upgrade_client"

CLIENT_ID_ATTRIBUTE_KEY == "client_id"
CLIENT_TYPE_ATTRIBUTE_KEY == "client_type"
CONSENSUS_HEIGHT_ATTRIBUTE_KEY == "consensus_height"
CONSENSUS_HEIGHTS_ATTRIBUTE_KEY == "consensus_heights"
HEADER_ATTRIBUTE_KEY == "header"

\* abci::EventAttribute from a (key, value) pair.
EventAttribute(k, v) == [key |-> k, value |-> v]

\* The value a failed expect() leaves instead of an attribute.
PanicAttribute == [key |-> "panic", value |-> <<>>]

\* impl From<ClientIdAttribute> for abci::EventAttribute
ClientIdAttributeInto(attr) ==
    EventAttribute(CLIENT_ID_ATTRIBUTE_KEY, AsStr(attr.client_id))

\* impl From<ClientTypeAttribute> for abci::EventAttribute
ClientTypeAttributeInto(attr) ==
    EventAttribute(CLIENT_TYPE_ATTRIBUTE_KEY, AsStr(attr.client_type))

\* A mutant of the conversion below: the two parts of the height swapped.
ConsensusHeightAttributeIntoSwapped(attr) ==
    EventAttribute(CONSENSUS_HEIGHT_ATTRIBUTE_KEY,
        DecStr(attr.consensus_height.revision_height) \o <<"-">>
            \o DecStr(attr.consensus_height.revision_number))

\* impl From<ConsensusHeightAttribute> for abci::EventAttribute
ConsensusHeightAttributeInto(attr) ==
    EventAttribute(CONSENSUS_HEIGHT_ATTRIBUTE_KEY,
                   HeightToString(attr.consensus_height))

\* A mutant of the conversion below: the heights rendered last to first.
ConsensusHeightsAttributeIntoReversed(attr) ==
    LET hs == attr.consensus_heights
        n == Len(hs)
        strs == [i \in 1..n |-> HeightToString(hs[n + 1 - i])]
    IN EventAttribute(CONSENSUS_HEIGHTS_ATTRIBUTE_KEY, Join(strs, <<",">>))

\* impl From<ConsensusHeightsAttribute> for abci::EventAttribute
ConsensusHeightsAttributeInto(attr) ==
    LET consensus_heights ==
            [i \in 1..Len(attr.consensus_heights) |->
                HeightToString(attr.consensus_heights[i])]
    IN EventAttribute(CONSENSUS_HEIGHTS_ATTRIBUTE_KEY,
                      Join(consensus_heights, <<",">>))

\* The ASCII code of the lowercase hexadecimal digit of a nibble.
HexNibble(n) == IF n < 10 THEN 48 + n ELSE 87 + n

\* A mutant of HexEncode: uppercase digits.
HexEncodeUpper(bytes) ==
    [i \in 1..(2 * Len(bytes)) |->
        LET b == bytes[(i + 1) \div 2]
            n == IF i % 2 = 1 THEN b \div 16 ELSE b % 16
        IN IF n < 10 THEN 48 + n ELSE 55 + n]

\* subtle_encoding::hex::encode: two lowercase digits per byte, the high
\* nibble first, as ASCII bytes.
HexEncode(bytes) ==
    [i \in 1..(2 * Len(bytes)) |->
        LET b == bytes[(i + 1) \div 2]
        IN IF i % 2 = 1 THEN HexNibble(b \div 16) ELSE HexNibble(b % 16)]

\* impl From<HeaderAttribute> for abci::EventAttribute
HeaderAttributeInto(attr) ==
    LET s == FromUtf8(HexEncode(attr.header))
    IN IF s.ok THEN EventAttribute(HEADER_ATTRIBUTE_KEY, s.value)
       ELSE PanicAttribute

(***************************************************************************)
(* events.rs: the four events, their constructors and accessors.           *)
(***************************************************************************)
NoEvent == [type |-> "None"]

\* CreateClient::new
CreateClientNew(client_id, client_type, consensus_height) ==
    [type |-> "CreateClient",
     client_id |-> [client_id |-> client_id],
     client_type |-> [client_type |-> client_type],
     consensus_height |-> [consensus_height |-> consensus_height]]

\* A mutant of the constructor below: the deprecated consensus_height is
\* taken from the end of the list of heights when there is one.
UpdateClientNewHeightFromList(client_id, client_type, consensus_height, consensus_heights, header) ==
    [type |-> "UpdateClient",
     client_id |-> [client_id |-> client_id],
     client_type |-> [client_type |-> client_type],
     consensus_height |->
        [consensus_height |->
            IF consensus_heights = <<>> THEN consensus_height
            ELSE consensus_heights[Len(consensus_heights)]],
     consensus_heights |-> [consensus_heights |-> consensus_heights],
     header |-> [header |-> header]]

\* UpdateClient::new
UpdateClientNew(client_id, client_type, consensus_height, consensus_heights, header) ==
    [type |-> "UpdateClient",
     client_id |-> [client_id |-> client_id],
     client_type |-> [client_type |-> client_type],
     consensus_height |-> [consensus_height |-> consensus_height],
     consensus_heights |-> [consensus_heights |-> consensus_heights],
     header |-> [header |-> header]]

\* UpdateClient::client_id, client_type, consensus_height,
\* consensus_heights and header
UpdateClientClientId(u) == u.client_id.client_id
UpdateClientClientType(u) == u.client_type.client_type
UpdateClientConsensusHeight(u) == u.consensus_height.consensus_height
UpdateClientConsensusHeights(u) == u.consensus_heights.consensus_heights
UpdateClientHeader(u) == u.header.header

\* ClientMisbehaviour::new
ClientMisbehaviourNew(client_id, client_type) ==
    [type |-> "ClientMisbehaviour",
     client_id |-> [client_id |-> client_id],
     client_type |-> [client_type |-> client_type]]

\* UpgradeClient::new
UpgradeClientNew(client_id, client_type, consensus_height) ==
    [type |-> "UpgradeClient",
     client_id |-> [client_id |-> client_id],
     client_type |-> [client_type |-> client_type],
     consensus_height |-> [consensus_height |-> consensus_height]]

\* event_type() of the four events.
EventType(e) ==
    CASE e.type = "CreateClient" -> CREATE_CLIENT_EVENT
      [] e.type = "UpdateClient" -> UPDATE_CLIENT_EVENT
      [] e.type = "ClientMisbehaviour" -> CLIENT_MISBEHAVIOUR_EVENT
      [] e.type = "UpgradeClient" -> UPGRADE_CLIENT_EVENT

NoAbci == [kind |-> "none", attributes |-> <<>>]

\* impl From<CreateClient> for abci::Event
CreateClientInto(c) ==
    [kind |-> CREATE_CLIENT_EVENT,
     attributes |-> << ClientIdAttributeInto(c.client_id),
                       ClientTypeAttributeInto(c.client_type),
                       ConsensusHeightAttributeInto(c.consensus_height) >>]

\* A mutant of the conversion below: consensus_heights before
\* consensus_height.
UpdateClientIntoReordered(u) ==
    [kind |-> UPDATE_CLIENT_EVENT,
     attributes |-> << ClientIdAttributeInto(u.client_id),
                       ClientTypeAttributeInto(u.client_type),
                       ConsensusHeightsAttributeInto(u.consensus_heights),
                       ConsensusHeightAttributeInto(u.consensus_height),
                       HeaderAttributeInto(u.header) >>]

\* impl From<UpdateClient> for abci::Event
UpdateClientInto(u) ==
    [kind |-> UPDATE_CLIENT_EVENT,
     attributes |-> << ClientIdAttributeInto(u.client_id),
                       ClientTypeAttributeInto(u.client_type),
                       ConsensusHeightAttributeInto(u.consensus_height),
                       ConsensusHeightsAttributeInto(u.consensus_heights),
                       HeaderAttributeInto(u.header) >>]

\* impl From<ClientMisbehaviour> for abci::Event
ClientMisbehaviourInto(c) ==
    [kind |-> CLIENT_MISBEHAVIOUR_EVENT,
     attributes |-> << ClientIdAttributeInto(c.client_id),
                       ClientTypeAttributeInto(c.client_type) >>]

\* impl From<UpgradeClient> for abci::Event
UpgradeClientInto(u) ==
    [kind |-> UPGRADE_CLIENT_EVENT,
     attributes |-> << ClientIdAttributeInto(u.client_id),
                       ClientTypeAttributeInto(u.client_type),
                       ConsensusHeightAttributeInto(u.consensus_height) >>]

\* The conversion of whichever event was built.
EventInto(e) ==
    CASE e.type = "CreateClient" -> CreateClientInto(e)
      [] e.type = "UpdateClient" -> UpdateClientInto(e)
      [] e.type = "ClientMisbehaviour" -> ClientMisbehaviourInto(e)
      [] e.type = "UpgradeClient" -> UpgradeClientInto(e)

(***************************************************************************)
(* The inputs of the event constructors.                                   *)
(***************************************************************************)
MaxHeights == 2     \* longest consensus_heights list
MaxHeaderLen == 2   \* longest header, in bytes

Str07Tendermint ==
    <<"0", "7", "-", "t", "e", "n", "d", "e", "r", "m", "i", "n", "t">>
Str9999Mock == <<"9", "9", "9", "9", "-", "m", "o", "c", "k">>

ClientTypeInputs == {Str07Tendermint, Str9999Mock}
ClientIdInputs == {ClientIdNew(Str07Tendermint, 0), ClientIdNew(Str9999Mock, 12)}

\* Height::new(revision_number, revision_height)
HeightNew(n, h) == [revision_number |-> n, revision_height |-> h]
HeightInputs == {HeightNew(0, 5), HeightNew(0, 7), HeightNew(1, 10)}

ByteInputs == {0, 10, 175, 255}

SeqsUpTo(S, n) == UNION {[1..k -> S] : k \in 0..n}

HeightListInputs == SeqsUpTo(HeightInputs, MaxHeights)
HeaderInputs == SeqsUpTo(ByteInputs, MaxHeaderLen)

(***************************************************************************)
(* The actions of the event part: a constructor builds an event, the       *)
(* conversion turns the built event into an ABCI event.                    *)
(***************************************************************************)
EmitCreateClient ==
    /\ event = NoEvent
    /\ \E id \in ClientIdInputs, ty \in ClientTypeInputs, h \in HeightInputs :
            /\ event' = CreateClientNew(id, ty, h)
            /\ abci' = NoAbci
            /\ eventArgs' = <<id, ty, h>>

EmitUpdateClient ==
    /\ event = NoEvent
    /\ \E id \in ClientIdInputs, ty \in ClientTypeInputs, h \in HeightInputs,
          hs \in HeightListInputs, hdr \in HeaderInputs :
            /\ event' = UpdateClientNew(id, ty, h, hs, hdr)
            /\ abci' = NoAbci
            /\ eventArgs' = <<id, ty, h, hs, hdr>>

EmitClientMisbehaviour ==
    /\ event = NoEvent
    /\ \E id \in ClientIdInputs, ty \in ClientTypeInputs :
            /\ event' = ClientMisbehaviourNew(id, ty)
            /\ abci' = NoAbci
            /\ eventArgs' = <<id, ty>>

EmitUpgradeClient ==
    /\ event = NoEvent
    /\ \E id \in ClientIdInputs, ty \in ClientTypeInputs, h \in HeightInputs :
            /\ event' = UpgradeClientNew(id, ty, h)
            /\ abci' = NoAbci
            /\ eventArgs' = <<id, ty, h>>

ConvertEvent ==
    /\ event # NoEvent
    /\ abci = NoAbci
    /\ abci' = EventInto(event)
    /\ UNCHANGED <<event, eventArgs>>

(***************************************************************************)
(* connection.rs: the host context the query server reads.                 *)
(* Identifiers are atomic strings here: the handlers parse and compare     *)
(* them, and never format them.                                            *)
(***************************************************************************)
MaxHostHeight == 2   \* highest host height

ConnectionIdOrder == <<"connection-0", "connection-1">>
ConnectionIds == {ConnectionIdOrder[i] : i \in 1..Len(ConnectionIdOrder)}
ClientIds == {"07-tendermint-0", "07-tendermint-1"}
RevisionHeights == {1, 2}
\* The heights a ConsensusState can be stored at.
ConsensusHeights == {[revision_number |-> 0, revision_height |-> h] : h \in RevisionHeights}

\* ConnectionId::from_str / ClientId::from_str: Ok(id) for a well-formed
\* identifier, Err for any other string.
ConnectionIdFromStr(s) == [ok |-> s \in ConnectionIds, id |-> s]
ClientIdFromStr(s) == [ok |-> s \in ClientIds, id |-> s]

\* Height::new: a height with revision_height 0 is invalid.
HeightNewChecked(n, h) == [ok |-> h # 0, height |-> HeightNew(n, h)]

NoConnectionEnd == [state |-> "None", client_id |-> "none"]
ConnectionEnds ==
    { [state |-> "Open", client_id |-> "07-tendermint-0"],
      [state |-> "Init", client_id |-> "07-tendermint-1"] }

NoClientState == [latest_height |-> 0]
ClientStateValues == { [latest_height |-> 2] }

\* The ConsensusState stored for a client at a height.
ConsensusStateAt(client_id, height) == [root |-> <<client_id, height>>]

\* ValidationContext::connection_end
connection_end(connection_id) ==
    [ok |-> connections[connection_id] # NoConnectionEnd,
     value |-> connections[connection_id]]

\* QueryContext::connection_ends: the identified connection ends, by id.
connection_ends ==
    LET Stored(id) == connections[id] # NoConnectionEnd
        ids == SelectSeq(ConnectionIdOrder, Stored)
    IN [i \in 1..Len(ids) |->
           [connection_id |-> ids[i], connection_end |-> connections[ids[i]]]]

\* QueryContext::client_connection_ends
client_connection_ends(client_id) ==
    [ok |-> clientConnections[client_id] # <<>>,
     value |-> clientConnections[client_id]]

\* ValidationContext::client_state
client_state(client_id) ==
    [ok |-> client_id \in ClientIds /\ clientStates[client_id] # NoClientState,
     value |-> IF client_id \in ClientIds THEN clientStates[client_id]
               ELSE NoClientState]

\* ValidationContext::consensus_state
consensus_state(path) ==
    [ok |-> /\ path.client_id \in ClientIds
            /\ path.height \in consensusStates[path.client_id],
     value |-> ConsensusStateAt(path.client_id, path.height)]

\* ValidationContext::host_height
host_height == hostHeight

\* ProvableContext::get_proof: the proof bytes of a path at a height.
get_proof(height, path) == [proves |-> path, at |-> height]

\* The store paths of ics24_host::path.
PathConnection(connection_id) ==
    [path |-> "Connection", connection_id |-> connection_id]
PathClientConnection(client_id) ==
    [path |-> "ClientConnection", client_id |-> client_id]
PathClientState(client_id) ==
    [path |-> "ClientState", client_id |-> client_id]
ClientConsensusStatePathNew(client_id, height) ==
    [path |-> "ClientConsensusState", client_id |-> client_id, height |-> height]

(***************************************************************************)
(* connection.rs: the six handlers.  Each is computed as the code runs:    *)
(* the checks in their order, the first failure returned.  ok_height,      *)
(* ok_proof and ok_list say whether the host answers host_height,          *)
(* get_proof and connection_ends.                                          *)
(***************************************************************************)
\* What a context method returned: Ok(value) / Some(value), or Err / None.
Returned(value) == [ok |-> TRUE, value |-> value]
Failed == [ok |-> FALSE]

\* One call of a context method, as the handler made it.
Read(name, arg, ret) == [call |-> name, arg |-> arg, ret |-> ret]

NoArg == [none |-> TRUE]
NoBody == [none |-> TRUE]

\* Err(Status::<code>(message)) and Ok(Response::new(body)), with the
\* context methods called on the way.
Status(code, message, rd) ==
    [code |-> code, message |-> message, body |-> NoBody, reads |-> rd]
OkResponse(body, rd) ==
    [code |-> "Ok", message |-> "", body |-> body, reads |-> rd]

\* self.ibc_context.connection_end(&connection_id), logged
ReadConnectionEnd(connection_id) ==
    LET found == connection_end(connection_id)
    IN Read("connection_end", connection_id,
            IF found.ok THEN Returned(found.value) ELSE Failed)

\* self.ibc_context.host_height(), logged
ReadHostHeight(ok_height) ==
    Read("host_height", NoArg,
         IF ok_height THEN Returned(host_height) ELSE Failed)

\* self.ibc_context.get_proof(height, &path), logged
ReadProof(height, path, ok_proof) ==
    Read("get_proof", [height |-> height, path |-> path],
         IF ok_proof THEN Returned(get_proof(height, path)) ELSE Failed)

\* A mutant of the handler below: the host height is read before the
\* connection end.
ConnectionHeightFirst(request, ok_height, ok_proof) ==
    LET parsed == ConnectionIdFromStr(request.connection_id)
        connection_id == parsed.id
        found == connection_end(connection_id)
        rd_h == <<ReadHostHeight(ok_height)>>
        rd == Append(rd_h, ReadConnectionEnd(connection_id))
        current_height == host_height
        path == PathConnection(connection_id)
        rd_p == Append(rd, ReadProof(current_height, path, ok_proof))
    IN IF ~parsed.ok THEN Status("InvalidArgument", "Invalid connection id", <<>>)
       ELSE IF ~ok_height
       THEN Status("NotFound", "Current height not found", rd_h)
       ELSE IF ~found.ok
       THEN Status("NotFound", "Connection end not found for connection", rd)
       ELSE IF ~ok_proof
       THEN Status("NotFound", "Proof not found for connection path", rd_p)
       ELSE OkResponse([connection |-> found.value,
                        proof |-> get_proof(current_height, path),
                        proof_height |-> current_height], rd_p)

\* ConnectionQueryServer::connection
Connection(request, ok_height, ok_proof) ==
    LET parsed == ConnectionIdFromStr(request.connection_id)
        connection_id == parsed.id
        found == connection_end(connection_id)
        rd == <<ReadConnectionEnd(connection_id)>>
        rd_h == Append(rd, ReadHostHeight(ok_height))
        current_height == host_height
        path == PathConnection(connection_id)
        rd_p == Append(rd_h, ReadProof(current_height, path, ok_proof))
    IN IF ~parsed.ok THEN Status("InvalidArgument", "Invalid connection id", <<>>)
       ELSE IF ~found.ok
       THEN Status("NotFound", "Connection end not found for connection", rd)
       ELSE IF ~ok_height
       THEN Status("NotFound", "Current height not found", rd_h)
       ELSE IF ~ok_proof
       THEN Status("NotFound", "Proof not found for connection path", rd_p)
       ELSE OkResponse([connection |-> found.value,
                        proof |-> get_proof(current_height, path),
                        proof_height |-> current_height], rd_p)

\* A mutant of the handler below: the host height is read before the list
\* of connection ends.
ConnectionsHeightFirst(request, ok_list, ok_height) ==
    LET rd_h == <<ReadHostHeight(ok_height)>>
        rd == Append(rd_h, Read("connection_ends", NoArg,
                     IF ok_list THEN Returned(connection_ends) ELSE Failed))
    IN IF ~ok_height THEN Status("NotFound", "Current height not found", rd_h)
       ELSE IF ~ok_list THEN Status("NotFound", "Connections not found", rd)
       ELSE OkResponse([connections |-> connection_ends, pagination |-> "None",
                        height |-> host_height], rd)

\* ConnectionQueryServer::connections
Connections(request, ok_list, ok_height) ==
    LET rd == <<Read("connection_ends", NoArg,
                     IF ok_list THEN Returned(connection_ends) ELSE Failed)>>
        rd_h == Append(rd, ReadHostHeight(ok_height))
    IN IF ~ok_list THEN Status("NotFound", "Connections not found", rd)
       ELSE IF ~ok_height
       THEN Status("NotFound", "Current height not found", rd_h)
       ELSE OkResponse([connections |-> connection_ends, pagination |-> "None",
                        height |-> host_height], rd_h)

\* ConnectionQueryServer::client_connections
ClientConnections(request, ok_height, ok_proof) ==
    LET parsed == ClientIdFromStr(request.client_id)
        client_id == parsed.id
        found == client_connection_ends(client_id)
        rd == <<Read("client_connection_ends", client_id,
                     IF found.ok THEN Returned(found.value) ELSE Failed)>>
        rd_h == Append(rd, ReadHostHeight(ok_height))
        current_height == host_height
        path == PathClientConnection(client_id)
        rd_p == Append(rd_h, ReadProof(current_height, path, ok_proof))
    IN IF ~parsed.ok THEN Status("InvalidArgument", "Invalid client id", <<>>)
       ELSE IF ~found.ok THEN Status("NotFound", "Connections not found", rd)
       ELSE IF ~ok_height
       THEN Status("NotFound", "Current height not found", rd_h)
       ELSE IF ~ok_proof
       THEN Status("NotFound", "Proof not found for client connection path", rd_p)
       ELSE OkResponse([connection_paths |-> found.value,
                        proof |-> get_proof(current_height, path),
                        proof_height |-> current_height], rd_p)

\* A mutant of the handler below: the response names the connection asked
\* for where it should name the connection's client.
ConnectionClientStateNamingConnection(request, ok_height, ok_proof) ==
    LET parsed == ConnectionIdFromStr(request.connection_id)
        connection_id == parsed.id
        found == connection_end(connection_id)
        rd == <<ReadConnectionEnd(connection_id)>>
        client == client_state(found.value.client_id)
        rd_c == Append(rd, Read("client_state", found.value.client_id,
                         IF client.ok THEN Returned(client.value) ELSE Failed))
        rd_h == Append(rd_c, ReadHostHeight(ok_height))
        current_height == host_height
        path == PathClientState(found.value.client_id)
        rd_p == Append(rd_h, ReadProof(current_height, path, ok_proof))
    IN IF ~parsed.ok THEN Status("InvalidArgument", "Invalid connection id", <<>>)
       ELSE IF ~found.ok
       THEN Status("NotFound", "Connection end not found for connection", rd)
       ELSE IF ~client.ok
       THEN Status("NotFound", "Client state not found for connection", rd_c)
       ELSE IF ~ok_height
       THEN Status("NotFound", "Current height not found", rd_h)
       ELSE IF ~ok_proof
       THEN Status("NotFound", "Proof not found for client state path", rd_p)
       ELSE OkResponse([identified_client_state |->
                            [client_id |-> connection_id,
                             client_state |-> client.value],
                        proof |-> get_proof(current_height, path),
                        proof_height |-> current_height], rd_p)

\* ConnectionQueryServer::connection_client_state
ConnectionClientState(request, ok_height, ok_proof) ==
    LET parsed == ConnectionIdFromStr(request.connection_id)
        connection_id == parsed.id
        found == connection_end(connection_id)
        rd == <<ReadConnectionEnd(connection_id)>>
        client == client_state(found.value.client_id)
        rd_c == Append(rd, Read("client_state", found.value.client_id,
                         IF client.ok THEN Returned(client.value) ELSE Failed))
        rd_h == Append(rd_c, ReadHostHeight(ok_height))
        current_height == host_height
        path == PathClientState(found.value.client_id)
        rd_p == Append(rd_h, ReadProof(current_height, path, ok_proof))
    IN IF ~parsed.ok THEN Status("InvalidArgument", "Invalid connection id", <<>>)
       ELSE IF ~found.ok
       THEN Status("NotFound", "Connection end not found for connection", rd)
       ELSE IF ~client.ok
       THEN Status("NotFound", "Client state not found for connection", rd_c)
       ELSE IF ~ok_height
       THEN Status("NotFound", "Current height not found", rd_h)
       ELSE IF ~ok_proof
       THEN Status("NotFound", "Proof not found for client state path", rd_p)
       ELSE OkResponse([identified_client_state |->
                            [client_id |-> found.value.client_id,
                             client_state |-> client.value],
                        proof |-> get_proof(current_height, path),
                        proof_height |-> current_height], rd_p)

\* A mutant of the handler below: the proof is taken at the height of the
\* request instead of the host height that is reported as proof_height.
ConnectionConsensusStateAtRequested(request, ok_height, ok_proof) ==
    LET parsed == ConnectionIdFromStr(request.connection_id)
        connection_id == parsed.id
        found == connection_end(connection_id)
        rd == <<ReadConnectionEnd(connection_id)>>
        height == HeightNewChecked(request.revision_number,
                                   request.revision_height)
        consensus_path ==
            ClientConsensusStatePathNew(found.value.client_id, height.height)
        consensus == consensus_state(consensus_path)
        rd_c == Append(rd, Read("consensus_state", consensus_path,
                    IF consensus.ok THEN Returned(consensus.value) ELSE Failed))
        rd_h == Append(rd_c, ReadHostHeight(ok_height))
        current_height == host_height
        rd_p == Append(rd_h, ReadProof(height.height, consensus_path, ok_proof))
    IN IF ~parsed.ok THEN Status("InvalidArgument", "Invalid connection id", <<>>)
       ELSE IF ~found.ok
       THEN Status("NotFound", "Connection end not found for connection", rd)
       ELSE IF ~height.ok THEN Status("InvalidArgument", "Invalid height", rd)
       ELSE IF ~consensus.ok
       THEN Status("NotFound", "Consensus state not found for connection", rd_c)
       ELSE IF ~ok_height
       THEN Status("NotFound", "Current height not found", rd_h)
       ELSE IF ~ok_proof
       THEN Status("NotFound", "Proof not found for consensus state path", rd_p)
       ELSE OkResponse([consensus_state |-> consensus.value,
                        client_id |-> found.value.client_id,
                        proof |-> get_proof(height.height, consensus_path),
                        proof_height |-> current_height], rd_p)

\* A mutant of the handler below: the height of the request is validated
\* before the connection end is looked up.
ConnectionConsensusStateHeightFirst(request, ok_height, ok_proof) ==
    LET parsed == ConnectionIdFromStr(request.connection_id)
        connection_id == parsed.id
        found == connection_end(connection_id)
        rd == <<ReadConnectionEnd(connection_id)>>
        height == HeightNewChecked(request.revision_number,
                                   request.revision_height)
        consensus_path ==
            ClientConsensusStatePathNew(found.value.client_id, height.height)
        consensus == consensus_state(consensus_path)
        rd_c == Append(rd, Read("consensus_state", consensus_path,
                    IF consensus.ok THEN Returned(consensus.value) ELSE Failed))
        rd_h == Append(rd_c, ReadHostHeight(ok_height))
        current_height == host_height
        rd_p == Append(rd_h, ReadProof(current_height, consensus_path, ok_proof))
    IN IF ~parsed.ok THEN Status("InvalidArgument", "Invalid connection id", <<>>)
       ELSE IF ~height.ok THEN Status("InvalidArgument", "Invalid height", <<>>)
       ELSE IF ~found.ok
       THEN Status("NotFound", "Connection end not found for connection", rd)
       ELSE IF ~consensus.ok
       THEN Status("NotFound", "Consensus state not found for connection", rd_c)
       ELSE IF ~ok_height
       THEN Status("NotFound", "Current height not found", rd_h)
       ELSE IF ~ok_proof
       THEN Status("NotFound", "Proof not found for consensus state path", rd_p)
       ELSE OkResponse([consensus_state |-> consensus.value,
                        client_id |-> found.value.client_id,
                        proof |-> get_proof(current_height, consensus_path),
                        proof_height |-> current_height], rd_p)

\* ConnectionQueryServer::connection_consensus_state
ConnectionConsensusState(request, ok_height, ok_proof) ==
    LET parsed == ConnectionIdFromStr(request.connection_id)
        connection_id == parsed.id
        found == connection_end(connection_id)
        rd == <<ReadConnectionEnd(connection_id)>>
        height == HeightNewChecked(request.revision_number,
                                   request.revision_height)
        consensus_path ==
            ClientConsensusStatePathNew(found.value.client_id, height.height)
        consensus == consensus_state(consensus_path)
        rd_c == Append(rd, Read("consensus_state", consensus_path,
                    IF consensus.ok THEN Returned(consensus.value) ELSE Failed))
        rd_h == Append(rd_c, ReadHostHeight(ok_height))
        current_height == host_height
        rd_p == Append(rd_h, ReadProof(current_height, consensus_path, ok_proof))
    IN IF ~parsed.ok THEN Status("InvalidArgument", "Invalid connection id", <<>>)
       ELSE IF ~found.ok
       THEN Status("NotFound", "Connection end not found for connection", rd)
       ELSE IF ~height.ok THEN Status("InvalidArgument", "Invalid height", rd)
       ELSE IF ~consensus.ok
       THEN Status("NotFound", "Consensus state not found for connection", rd_c)
       ELSE IF ~ok_height
       THEN Status("NotFound", "Current height not found", rd_h)
       ELSE IF ~ok_proof
       THEN Status("NotFound", "Proof not found for consensus state path", rd_p)
       ELSE OkResponse([consensus_state |-> consensus.value,
                        client_id |-> found.value.client_id,
                        proof |-> get_proof(current_height, consensus_path),
                        proof_height |-> current_height], rd_p)

\* Duration::as_secs of a duration given in milliseconds.
AsSecs(millis) == millis \div 1000

\* ConnectionQueryServer::connection_params
ConnectionParams(request, max_expected_time_per_block) ==
    OkResponse([params |-> [max_expected_time_per_block |->
                                AsSecs(max_expected_time_per_block)]],
               <<Read("max_expected_time_per_block", NoArg,
                      Returned(max_expected_time_per_block))>>)

(***************************************************************************)
(* The requests, and the actions of the query part: one per handler, each  *)
(* the whole call; then the response is returned to the caller.            *)
(***************************************************************************)
NoCall == [rpc |-> "none", request |-> NoArg]
NoResponse == [code |-> "none", message |-> "", body |-> NoBody]

ConnectionIdInputs == ConnectionIds \cup {"connection?"}
ClientIdRequestInputs == ClientIds \cup {"client?"}
RevisionNumberInputs == {0, 1}
RevisionHeightInputs == {0} \cup RevisionHeights
DurationInputs == {0, 999, 1000, 30500}

\* The handler ran on the request and answered r.
Served(rpc, request, r) ==
    /\ call' = [rpc |-> rpc, request |-> request]
    /\ resp' = [code |-> r.code, message |-> r.message, body |-> r.body]
    /\ reads' = r.reads
    /\ UNCHANGED storeVars

QueryConnection ==
    /\ call = NoCall
    /\ \E id \in ConnectionIdInputs, ok_height \in BOOLEAN, ok_proof \in BOOLEAN :
        LET request == [connection_id |-> id]
        IN Served("connection", request,
                  Connection(request, ok_height, ok_proof))

QueryConnections ==
    /\ call = NoCall
    /\ \E ok_list \in BOOLEAN, ok_height \in BOOLEAN :
        LET request == [pagination |-> "None"]
        IN Served("connections", request,
                  Connections(request, ok_list, ok_height))

QueryClientConnections ==
    /\ call = NoCall
    /\ \E id \in ClientIdRequestInputs, ok_height \in BOOLEAN,
          ok_proof \in BOOLEAN :
        LET request == [client_id |-> id]
        IN Served("client_connections", request,
                  ClientConnections(request, ok_height, ok_proof))

\* A mutant of the action below: the handler takes the client state out of
\* the store instead of reading it.
QueryConnectionClientStateTaking ==
    /\ call = NoCall
    /\ \E id \in ConnectionIdInputs, ok_height \in BOOLEAN, ok_proof \in BOOLEAN :
        LET request == [connection_id |-> id]
            r == ConnectionClientState(request, ok_height, ok_proof)
        IN /\ call' = [rpc |-> "connection_client_state", request |-> request]
           /\ resp' = [code |-> r.code, message |-> r.message, body |-> r.body]
           /\ reads' = r.reads
           /\ clientStates' =
                  IF r.code = "Ok"
                  THEN [clientStates EXCEPT
                            ![connections[id].client_id] = NoClientState]
                  ELSE clientStates
           /\ UNCHANGED <<connections, clientConnections, consensusStates,
                          hostHeight>>

QueryConnectionClientState ==
    /\ call = NoCall
    /\ \E id \in ConnectionIdInputs, ok_height \in BOOLEAN, ok_proof \in BOOLEAN :
        LET request == [connection_id |-> id]
        IN Served("connection_client_state", request,
                  ConnectionClientState(request, ok_height, ok_proof))

QueryConnectionConsensusState ==
    /\ call = NoCall
    /\ \E id \in ConnectionIdInputs, n \in RevisionNumberInputs,
          h \in RevisionHeightInputs, ok_height \in BOOLEAN,
          ok_proof \in BOOLEAN :
        LET request == [connection_id |-> id, revision_number |-> n,
                        revision_height |-> h]
        IN Served("connection_consensus_state", request,
                  ConnectionConsensusState(request, ok_height, ok_proof))

QueryConnectionParams ==
    /\ call = NoCall
    /\ \E d \in DurationInputs :
        LET request == NoArg
        IN Served("connection_params", request, ConnectionParams(request, d))

\* The response goes back to the caller; the server takes the next request.
QueryReturn ==
    /\ call # NoCall
    /\ call' = NoCall
    /\ resp' = NoResponse
    /\ reads' = <<>>
    /\ UNCHANGED storeVars

\* The connection ids of a client, in the order of the index.
ConnectionsOfClient(store, client_id) ==
    LET OfClient(id) == store[id].client_id = client_id
    IN SelectSeq(ConnectionIdOrder, OfClient)

(***************************************************************************)
(* Client lifecycle (specification section 4.1): create_client,            *)
(* update_client, submit_misbehaviour, upgrade_client.  The verification   *)
(* done by the light client capability is an input of each message: the    *)
(* header, the evidence or the upgrade proof is valid or is not.           *)
(***************************************************************************)
MaxClientHeight == 3   \* highest height of a header or an upgrade

\* The identifiers create_client hands out, in order.
LifecycleClientOrder == <<"07-tendermint-0", "07-tendermint-1">>
LifecycleClientIds ==
    {LifecycleClientOrder[i] : i \in 1..Len(LifecycleClientOrder)}
ClientHeights == 1..MaxClientHeight

NoClient == [status |-> "None", latest_height |-> 0, upgraded |-> FALSE]

\* The outcome of a lifecycle message: its result and the store after it.
ClientOutcome(result, cls, cons) ==
    [result |-> result, clients |-> cls, consensus |-> cons]

\* create_client(client_state, initial_consensus_state) -> client_id
CreateClientHandler(client_id, height) ==
    ClientOutcome("Ok",
        [clients EXCEPT ![client_id] =
            [status |-> "Active", latest_height |-> height, upgraded |-> FALSE]],
        [clientConsensus EXCEPT ![client_id] = {height}])

\* A mutant of the handler below: a frozen client is updated like an active
\* one.
UpdateClientHandlerNoFrozenCheck(client_id, header) ==
    LET client == clients[client_id]
    IN IF client.status = "None"
       THEN ClientOutcome("ClientError", clients, clientConsensus)
       ELSE IF ~header.valid
       THEN ClientOutcome("ClientError", clients, clientConsensus)
       ELSE IF header.height <= client.latest_height
       THEN ClientOutcome("HeightError", clients, clientConsensus)
       ELSE ClientOutcome("Ok",
                [clients EXCEPT ![client_id].latest_height = header.height],
                [clientConsensus EXCEPT ![client_id] = @ \cup {header.height}])

\* update_client(client_id, header): an unknown or frozen client fails with
\* ClientError; a header the capability rejects fails; a valid header stores
\* a ConsensusState at its height and advances the latest height.
UpdateClientHandler(client_id, header) ==
    LET client == clients[client_id]
    IN IF client.status = "None"
       THEN ClientOutcome("ClientError", clients, clientConsensus)
       ELSE IF client.status = "Frozen"
       THEN ClientOutcome("ClientError", clients, clientConsensus)
       ELSE IF ~header.valid
       THEN ClientOutcome("ClientError", clients, clientConsensus)
       ELSE IF header.height <= client.latest_height
       THEN ClientOutcome("HeightError", clients, clientConsensus)
       ELSE ClientOutcome("Ok",
                [clients EXCEPT ![client_id].latest_height = header.height],
                [clientConsensus EXCEPT ![client_id] = @ \cup {header.height}])

\* submit_misbehaviour(client_id, evidence): on positive detection the
\* client becomes Frozen.
SubmitMisbehaviourHandler(client_id, evidence_valid) ==
    LET client == clients[client_id]
    IN IF client.status # "Active"
       THEN ClientOutcome("ClientError", clients, clientConsensus)
       ELSE IF ~evidence_valid
       THEN ClientOutcome("ClientError", clients, clientConsensus)
       ELSE ClientOutcome("Ok",
                [clients EXCEPT ![client_id].status = "Frozen"],
                clientConsensus)

\* upgrade_client(client_id, new_client_state, new_consensus_state,
\* upgrade_proof): from Active only, once, with a valid proof.
UpgradeClientHandler(client_id, height, proof_valid) ==
    LET client == clients[client_id]
    IN IF client.status # "Active" \/ client.upgraded
       THEN ClientOutcome("ClientError", clients, clientConsensus)
       ELSE IF ~proof_valid
       THEN ClientOutcome("ProofVerificationError", clients, clientConsensus)
       ELSE ClientOutcome("Ok",
                [clients EXCEPT ![client_id] =
                    [status |-> "Active", latest_height |-> height,
                     upgraded |-> TRUE]],
                [clientConsensus EXCEPT ![client_id] = @ \cup {height}])

NoClientResult == [op |-> "none", client_id |-> "none", result |-> "none"]

\* The message was handled with outcome o.
ClientHandled(op, client_id, o) ==
    /\ clients' = o.clients
    /\ clientConsensus' = o.consensus
    /\ clientResult' = [op |-> op, client_id |-> client_id, result |-> o.result]

\* The number of clients created so far (the client counter).
ClientCounter == Cardinality({id \in LifecycleClientIds : clients[id] # NoClient})

MsgCreateClient ==
    /\ ClientCounter < Len(LifecycleClientOrder)
    /\ \E h \in ClientHeights :
        LET id == LifecycleClientOrder[ClientCounter + 1]
        IN ClientHandled("create_client", id, CreateClientHandler(id, h))

MsgUpdateClient ==
    \E id \in LifecycleClientIds, h \in ClientHeights, valid \in BOOLEAN :
        ClientHandled("update_client", id,
            UpdateClientHandler(id, [height |-> h, valid |-> valid]))

MsgSubmitMisbehaviour ==
    \E id \in LifecycleClientIds, valid \in BOOLEAN :
        ClientHandled("submit_misbehaviour", id,
            SubmitMisbehaviourHandler(id, valid))

MsgUpgradeClient ==
    \E id \in LifecycleClientIds, h \in ClientHeights, valid \in BOOLEAN :
        ClientHandled("upgrade_client", id, UpgradeClientHandler(id, h, valid))

(***************************************************************************)
(* Connection handshake (specification section 4.2) between two chains.    *)
(* A relayer submits Init, Try, Ack and Confirm messages in any order and  *)
(* any number of times.  A membership proof is checked against what the    *)
(* counterparty has committed at some height, so a record the counterparty *)
(* stored once can be proved for ever; besides, the relayer may hand in    *)
(* proof bytes that do not verify (proof_valid = FALSE).                   *)
(***************************************************************************)
Chains == {"A", "B"}
Counterparty(chain) == IF chain = "A" THEN "B" ELSE "A"

\* The identifiers a chain hands out to its connections, in order.
HandshakeConnectionOrder == <<"connection-0", "connection-1">>
HandshakeConnectionIds ==
    {HandshakeConnectionOrder[i] : i \in 1..Len(HandshakeConnectionOrder)}

\* The versions a chain supports, and the sets an Init message proposes.
SupportedVersions == {"2", "3"}
VersionProposals == {{"1", "2"}, {"9"}}

NoConnection ==
    [state |-> "None", counterparty_connection |-> "none", versions |-> {}]

\* A record of a chain's store as a membership proof shows it.
Fact(connection_id, end) ==
    [connection_id |-> connection_id, state |-> end.state,
     counterparty_connection |-> end.counterparty_connection,
     versions |-> end.versions]

\* An executed handshake step.
Step(step, chain, connection_id, counterparty_connection) ==
    [step |-> step, chain |-> chain, connection_id |-> connection_id,
     counterparty_connection |-> counterparty_connection]

\* The number of connections a chain has created (its connection counter).
ConnectionCounter(chain) ==
    Cardinality({id \in HandshakeConnectionIds : conns[chain][id] # NoConnection})

\* The outcome of a handshake message: its result and the state after it.
HandshakeOutcome(result, cs, cm, dn) ==
    [result |-> result, conns |-> cs, committed |-> cm, done |-> dn]
Rejected(result) == HandshakeOutcome(result, conns, committed, done)

\* The message stores `end` under connection_id on `chain`; `step` is done.
Stored(chain, connection_id, end, step) ==
    HandshakeOutcome("Ok",
        [conns EXCEPT ![chain][connection_id] = end],
        [committed EXCEPT ![chain] = @ \cup {Fact(connection_id, end)}],
        done \cup {step})

\* Init: creates ConnectionEnd{Init} and proposes a set of versions.
ConnOpenInitHandler(chain, versions) ==
    LET id == HandshakeConnectionOrder[ConnectionCounter(chain) + 1]
    IN Stored(chain, id,
              [state |-> "Init", counterparty_connection |-> "none",
               versions |-> versions],
              Step("Init", chain, id, "none"))

\* Try: the counterparty's record must exist in Init and its proof verify,
\* the counterparty's view of this chain's client must match, the versions
\* must intersect; creates ConnectionEnd{TryOpen} with the chosen version.
ConnOpenTryHandler(chain, counterparty_connection, proof_valid, self_client_ok) ==
    LET proved == {f \in committed[Counterparty(chain)] :
                      /\ f.connection_id = counterparty_connection
                      /\ f.state = "Init"}
        common == IF proved = {} THEN {}
                  ELSE (CHOOSE f \in proved : TRUE).versions \cap SupportedVersions
        id == HandshakeConnectionOrder[ConnectionCounter(chain) + 1]
    IN IF proved = {} THEN Rejected("HandshakeStateError")
       ELSE IF ~proof_valid THEN Rejected("ProofVerificationError")
       ELSE IF ~self_client_ok THEN Rejected("ClientError")
       ELSE IF common = {} THEN Rejected("HandshakeStateError")
       ELSE Stored(chain, id,
                   [state |-> "TryOpen",
                    counterparty_connection |-> counterparty_connection,
                    versions |-> {CHOOSE v \in common : TRUE}],
                   Step("Try", chain, id, counterparty_connection))

\* A mutant of the handler below: the counterparty's TryOpen record is not
\* required.
ConnOpenAckHandlerNoTry(chain, connection_id, counterparty_connection, proof_valid, self_client_ok) ==
    LET end == conns[chain][connection_id]
    IN IF end.state # "Init" THEN Rejected("HandshakeStateError")
       ELSE IF ~proof_valid THEN Rejected("ProofVerificationError")
       ELSE IF ~self_client_ok THEN Rejected("ClientError")
       ELSE Stored(chain, connection_id,
                   [state |-> "Open",
                    counterparty_connection |-> counterparty_connection,
                    versions |-> end.versions],
                   Step("Ack", chain, connection_id, counterparty_connection))

\* Ack: the connection must be in Init, the counterparty's TryOpen record
\* for it must exist and its proof verify; adopts the chosen version and
\* advances to Open.
ConnOpenAckHandler(chain, connection_id, counterparty_connection, proof_valid, self_client_ok) ==
    LET end == conns[chain][connection_id]
        proved == {f \in committed[Counterparty(chain)] :
                      /\ f.connection_id = counterparty_connection
                      /\ f.state = "TryOpen"
                      /\ f.counterparty_connection = connection_id}
    IN IF end.state # "Init" THEN Rejected("HandshakeStateError")
       ELSE IF proved = {} THEN Rejected("HandshakeStateError")
       ELSE IF ~proof_valid THEN Rejected("ProofVerificationError")
       ELSE IF ~self_client_ok THEN Rejected("ClientError")
       ELSE Stored(chain, connection_id,
                   [state |-> "Open",
                    counterparty_connection |-> counterparty_connection,
                    versions |-> (CHOOSE f \in proved : TRUE).versions],
                   Step("Ack", chain, connection_id, counterparty_connection))

\* Confirm: the connection must be in TryOpen, the counterparty's Open
\* record for it must exist and its proof verify; advances to Open.
ConnOpenConfirmHandler(chain, connection_id, proof_valid) ==
    LET end == conns[chain][connection_id]
        proved == {f \in committed[Counterparty(chain)] :
                      /\ f.connection_id = end.counterparty_connection
                      /\ f.state = "Open"
                      /\ f.counterparty_connection = connection_id}
    IN IF end.state # "TryOpen" THEN Rejected("HandshakeStateError")
       ELSE IF proved = {} THEN Rejected("HandshakeStateError")
       ELSE IF ~proof_valid THEN Rejected("ProofVerificationError")
       ELSE Stored(chain, connection_id, [end EXCEPT !.state = "Open"],
                   Step("Confirm", chain, connection_id,
                        end.counterparty_connection))

NoHandshakeResult == [step |-> Step("none", "none", "none", "none"), result |-> "none"]

\* The message was handled with outcome o.
HandshakeHandled(step, o) ==
    /\ conns' = o.conns
    /\ committed' = o.committed
    /\ done' = o.done
    /\ hsResult' = [step |-> step, result |-> o.result]

MsgConnOpenInit ==
    \E chain \in Chains, versions \in VersionProposals :
        /\ ConnectionCounter(chain) < Len(HandshakeConnectionOrder)
        /\ HandshakeHandled(
               Step("Init", chain,
                    HandshakeConnectionOrder[ConnectionCounter(chain) + 1], "none"),
               ConnOpenInitHandler(chain, versions))

MsgConnOpenTry ==
    \E chain \in Chains, cp \in HandshakeConnectionIds,
       proof_valid \in BOOLEAN, self_client_ok \in BOOLEAN :
        /\ ConnectionCounter(chain) < Len(HandshakeConnectionOrder)
        /\ HandshakeHandled(
               Step("Try", chain,
                    HandshakeConnectionOrder[ConnectionCounter(chain) + 1], cp),
               ConnOpenTryHandler(chain, cp, proof_valid, self_client_ok))

MsgConnOpenAck ==
    \E chain \in Chains, id \in HandshakeConnectionIds,
       cp \in HandshakeConnectionIds,
       proof_valid \in BOOLEAN, self_client_ok \in BOOLEAN :
        HandshakeHandled(Step("Ack", chain, id, cp),
            ConnOpenAckHandler(chain, id, cp, proof_valid, self_client_ok))

MsgConnOpenConfirm ==
    \E chain \in Chains, id \in HandshakeConnectionIds, proof_valid \in BOOLEAN :
        HandshakeHandled(
            Step("Confirm", chain, id, conns[chain][id].counterparty_connection),
            ConnOpenConfirmHandler(chain, id, proof_valid))

(***************************************************************************)
(* Packet lifecycle (specification section 4.4) on one channel, from the   *)
(* source chain to the destination chain.  A relayer submits receive,      *)
(* acknowledge and timeout messages for any sequence, in any order and any *)
(* number of times.  A membership proof of a PacketCommitment is checked   *)
(* at a height the relayer claims, so a commitment that was stored once    *)
(* can be proved after it has been cleared; the relayer may also hand in   *)
(* proof bytes that do not verify (proof_valid = FALSE).                   *)
(***************************************************************************)
MaxSeq == 2
MaxDestHeight == 2

Sequences == 1..MaxSeq
DestHeights == 1..MaxDestHeight
Orderings == {"Ordered", "Unordered"}

\* The channel ends as created by the channel handshake.  timeouts[seq] is
\* the timeout height of the packet sent with sequence seq (0: not sent);
\* received_at[seq] is the destination height at which it was received
\* (0: not received).
SourceNew ==
    [channel_state |-> "Open", next_send |-> 1, next_ack |-> 1,
     commitments |-> {}, timeouts |-> [seq \in Sequences |-> 0]]
DestNew ==
    [height |-> 1, next_recv |-> 1, receipts |-> {}, acks |-> {},
     received_at |-> [seq \in Sequences |-> 0]]

\* What has happened to each sequence: how many times it was received, and
\* the operations that cleared its commitment.
HistoryNew ==
    [received |-> [seq \in Sequences |-> 0],
     cleared |-> [seq \in Sequences |-> <<>>]]

\* The outcome of a packet message: its result and the state after it.
PacketOutcome(result, src, dst, hist) ==
    [result |-> result, source |-> src, dest |-> dst, history |-> hist]
PacketRejected(result) == PacketOutcome(result, source, dest, history)

\* The sender's commitment of seq can be proved at some height: it was
\* stored when the packet was sent.
CommitmentProved(seq) == seq < source.next_send

\* The destination's committed state at proof_height shows that seq has not
\* been received.  Committed heights are those below the current one.
AbsenceProved(seq, proof_height) ==
    /\ proof_height < dest.height
    /\ \/ dest.received_at[seq] = 0
       \/ dest.received_at[seq] > proof_height

\* send_packet: the channel is Open and the timeout is not in the past;
\* takes the next send sequence and stores the commitment.
SendPacketHandler(timeout_height) ==
    LET seq == source.next_send
    IN IF source.channel_state # "Open" THEN PacketRejected("PacketError")
       ELSE IF timeout_height < dest.height THEN PacketRejected("PacketError")
       ELSE PacketOutcome("Ok",
                [source EXCEPT !.next_send = seq + 1,
                               !.commitments = @ \cup {seq},
                               !.timeouts[seq] = timeout_height],
                dest, history)

\* A mutant of the handler below: neither the next-expected sequence nor
\* the receipt is looked at.
RecvPacketHandlerNoReplayCheck(seq, proof_valid) ==
    IF ~CommitmentProved(seq) \/ ~proof_valid
    THEN PacketRejected("ProofVerificationError")
    ELSE PacketOutcome("Ok", source,
             [dest EXCEPT !.next_recv = IF ordering = "Ordered" THEN @ + 1 ELSE @,
                          !.receipts = IF ordering = "Unordered" THEN @ \cup {seq} ELSE @,
                          !.acks = @ \cup {seq},
                          !.received_at[seq] = dest.height],
             [history EXCEPT !.received[seq] = @ + 1])

\* recv_packet: verifies the proof of the commitment; an Ordered channel
\* requires the next expected sequence and advances the counter, an
\* Unordered one requires that no receipt exists and writes one; writes the
\* acknowledgement.
RecvPacketHandler(seq, proof_valid) ==
    IF ~CommitmentProved(seq) \/ ~proof_valid
    THEN PacketRejected("ProofVerificationError")
    ELSE IF ordering = "Ordered" /\ seq # dest.next_recv
    THEN PacketRejected("PacketError")
    ELSE IF ordering = "Unordered" /\ seq \in dest.receipts
    THEN PacketRejected("PacketError")
    ELSE PacketOutcome("Ok", source,
             [dest EXCEPT !.next_recv = IF ordering = "Ordered" THEN @ + 1 ELSE @,
                          !.receipts = IF ordering = "Unordered" THEN @ \cup {seq} ELSE @,
                          !.acks = @ \cup {seq},
                          !.received_at[seq] = dest.height],
             [history EXCEPT !.received[seq] = @ + 1])

\* The commitment of seq is cleared by operation op.
Cleared(seq, op, src) ==
    PacketOutcome("Ok", [src EXCEPT !.commitments = @ \ {seq}], dest,
                  [history EXCEPT !.cleared[seq] = Append(@, op)])

\* A mutant of the handler below: the commitment is not required.
AcknowledgePacketHandlerNoCommitment(seq, proof_valid) ==
    IF seq \notin dest.acks \/ ~proof_valid
    THEN PacketRejected("ProofVerificationError")
    ELSE IF ordering = "Ordered" /\ seq # source.next_ack
    THEN PacketRejected("PacketError")
    ELSE Cleared(seq, "acknowledge_packet",
                 [source EXCEPT !.next_ack = IF ordering = "Ordered" THEN @ + 1 ELSE @])

\* acknowledge_packet: the commitment must be there; verifies the proof of
\* the acknowledgement stored at the destination; an Ordered channel
\* requires the next expected ack sequence and advances the counter;
\* clears the commitment.
AcknowledgePacketHandler(seq, proof_valid) ==
    IF seq \notin source.commitments THEN PacketRejected("PacketError")
    ELSE IF seq \notin dest.acks \/ ~proof_valid
    THEN PacketRejected("ProofVerificationError")
    ELSE IF ordering = "Ordered" /\ seq # source.next_ack
    THEN PacketRejected("PacketError")
    ELSE Cleared(seq, "acknowledge_packet",
                 [source EXCEPT !.next_ack = IF ordering = "Ordered" THEN @ + 1 ELSE @])

\* A mutant of the handler below: proof_height is not compared with the
\* packet's timeout.
TimeoutPacketHandlerNotElapsed(seq, proof_height, proof_valid) ==
    IF seq \notin source.commitments THEN PacketRejected("PacketError")
    ELSE IF ~AbsenceProved(seq, proof_height) \/ ~proof_valid
    THEN PacketRejected("ProofVerificationError")
    ELSE Cleared(seq, "timeout_packet",
                 [source EXCEPT !.channel_state =
                                    IF ordering = "Ordered" THEN "Closed" ELSE @])

\* timeout_packet: the commitment must be there and proof_height be at or
\* after the packet's timeout; verifies the proof that the packet was not
\* received; clears the commitment and closes an Ordered channel.
TimeoutPacketHandler(seq, proof_height, proof_valid) ==
    IF seq \notin source.commitments THEN PacketRejected("PacketError")
    ELSE IF proof_height < source.timeouts[seq] THEN PacketRejected("PacketError")
    ELSE IF ~AbsenceProved(seq, proof_height) \/ ~proof_valid
    THEN PacketRejected("ProofVerificationError")
    ELSE Cleared(seq, "timeout_packet",
                 [source EXCEPT !.channel_state =
                                    IF ordering = "Ordered" THEN "Closed" ELSE @])

NoPacketResult == [op |-> "none", seq |-> 0, result |-> "none"]

\* The message was handled with outcome o.
PacketHandled(op, seq, o) ==
    /\ source' = o.source
    /\ dest' = o.dest
    /\ history' = o.history
    /\ pktResult' = [op |-> op, seq |-> seq, result |-> o.result]
    /\ UNCHANGED ordering

\* Messages are handled one after the other: the result of one is handed
\* back before the next is taken up.
MsgSendPacket ==
    /\ pktResult = NoPacketResult
    /\ source.next_send <= MaxSeq
    /\ \E timeout_height \in DestHeights :
        PacketHandled("send_packet", source.next_send,
                      SendPacketHandler(timeout_height))

MsgRecvPacket ==
    /\ pktResult = NoPacketResult
    /\ \E seq \in Sequences, proof_valid \in BOOLEAN :
        PacketHandled("recv_packet", seq, RecvPacketHandler(seq, proof_valid))

MsgAcknowledgePacket ==
    /\ pktResult = NoPacketResult
    /\ \E seq \in Sequences, proof_valid \in BOOLEAN :
        PacketHandled("acknowledge_packet", seq,
                      AcknowledgePacketHandler(seq, proof_valid))

MsgTimeoutPacket ==
    /\ pktResult = NoPacketResult
    /\ \E seq \in Sequences, proof_height \in DestHeights, proof_valid \in BOOLEAN :
        PacketHandled("timeout_packet", seq,
                      TimeoutPacketHandler(seq, proof_height, proof_valid))

\* The result of the message goes back to its sender.
PacketReturn ==
    /\ pktResult # NoPacketResult
    /\ pktResult' = NoPacketResult
    /\ UNCHANGED <<ordering, source, dest, history>>

\* The destination chain commits a block; no message is handled.
DestAdvance ==
    /\ pktResult = NoPacketResult
    /\ dest.height < MaxDestHeight
    /\ dest' = [dest EXCEPT !.height = @ + 1]
    /\ pktResult' = NoPacketResult
    /\ UNCHANGED <<ordering, source, history>>

(***************************************************************************)
(* connection.rs: the `connection` and `connection_client_state` handlers  *)
(* call by call, beside a host that commits blocks.  The server holds the  *)
(* context by value and reads it through &self (I: Send + Sync); each      *)
(* context method is a call of its own, and the handler holds nothing      *)
(* between two calls, so the host may commit a block between any two of    *)
(* them.  A block writes the store and advances the host height as one     *)
(* step; storeAt[h] is the store as committed at height h, which is what a *)
(* proof at height h proves.                                               *)
(***************************************************************************)
NoTask ==
    [pc |-> "idle", connection_end |-> NoConnectionEnd,
     client_state |-> NoClientState, current_height |-> HeightNew(0, 0)]

\* The store as it is committed with a block.
Snapshot(cs, cl) == [connections |-> cs, clientStates |-> cl]

\* The handler answers and is done.
Answer(r) ==
    /\ resp' = [code |-> r.code, message |-> r.message, body |-> r.body]
    /\ reads' = r.reads
    /\ task' = [task EXCEPT !.pc = "done"]

\* The handler goes on to its next call.
Proceed(rd, next) ==
    /\ resp' = resp
    /\ reads' = rd
    /\ task' = next

\* The request arrives and its connection id is parsed.
BeginHandler(rpc) ==
    /\ call = NoCall
    /\ task.pc = "idle"
    /\ \E id \in ConnectionIdInputs :
        LET request == [connection_id |-> id]
        IN /\ call' = [rpc |-> rpc, request |-> request]
           /\ IF ConnectionIdFromStr(id).ok
              THEN Proceed(<<>>, [task EXCEPT !.pc = "connection_end"])
              ELSE Answer(Status("InvalidArgument", "Invalid connection id", <<>>))
    /\ UNCHANGED <<storeVars, storeAt>>

BeginConnection == BeginHandler("connection")
BeginConnectionClientState == BeginHandler("connection_client_state")

\* self.ibc_context.connection_end(&connection_id)
StepConnectionEnd ==
    /\ task.pc = "connection_end"
    /\ LET connection_id == call.request.connection_id
           found == connection_end(connection_id)
           rd == Append(reads, ReadConnectionEnd(connection_id))
       IN IF ~found.ok
          THEN Answer(Status("NotFound",
                             "Connection end not found for connection", rd))
          ELSE Proceed(rd, [task EXCEPT
                   !.connection_end = found.value,
                   !.pc = IF call.rpc = "connection" THEN "host_height"
                          ELSE "client_state"])
    /\ UNCHANGED <<call, storeVars, storeAt>>

\* self.ibc_context.client_state(connection_end.client_id())
StepClientState ==
    /\ task.pc = "client_state"
    /\ LET client == client_state(task.connection_end.client_id)
           rd == Append(reads, Read("client_state", task.connection_end.client_id,
                         IF client.ok THEN Returned(client.value) ELSE Failed))
       IN IF ~client.ok
          THEN Answer(Status("NotFound",
                             "Client state not found for connection", rd))
          ELSE Proceed(rd, [task EXCEPT !.client_state = client.value,
                                        !.pc = "host_height"])
    /\ UNCHANGED <<call, storeVars, storeAt>>

\* self.ibc_context.host_height()
StepHostHeight ==
    /\ task.pc = "host_height"
    /\ \E ok_height \in BOOLEAN :
        LET rd == Append(reads, ReadHostHeight(ok_height))
        IN IF ~ok_height
           THEN Answer(Status("NotFound", "Current height not found", rd))
           ELSE Proceed(rd, [task EXCEPT !.current_height = host_height,
                                         !.pc = "get_proof"])
    /\ UNCHANGED <<call, storeVars, storeAt>>

\* self.ibc_context.get_proof(current_height, &path), and the response
StepGetProof ==
    /\ task.pc = "get_proof"
    /\ \E ok_proof \in BOOLEAN :
        LET client_id == task.connection_end.client_id
            path == IF call.rpc = "connection"
                    THEN PathConnection(call.request.connection_id)
                    ELSE PathClientState(client_id)
            rd == Append(reads, ReadProof(task.current_height, path, ok_proof))
            proof == get_proof(task.current_height, path)
        IN IF ~ok_proof
           THEN Answer(Status("NotFound",
                    IF call.rpc = "connection"
                    THEN "Proof not found for connection path"
                    ELSE "Proof not found for client state path", rd))
           ELSE IF call.rpc = "connection"
           THEN Answer(OkResponse([connection |-> task.connection_end,
                                   proof |-> proof,
                                   proof_height |-> task.current_height], rd))
           ELSE Answer(OkResponse([identified_client_state |->
                                       [client_id |-> client_id,
                                        client_state |-> task.client_state],
                                   proof |-> proof,
                                   proof_height |-> task.current_height], rd))
    /\ UNCHANGED <<call, storeVars, storeAt>>

\* The response goes back to the caller.
StepReturn ==
    /\ task.pc = "done"
    /\ call' = NoCall
    /\ resp' = NoResponse
    /\ reads' = <<>>
    /\ task' = NoTask
    /\ UNCHANGED <<storeVars, storeAt>>

\* The host commits a block: the store as written by the block's messages
\* becomes the store at the next height.
Commit(cs, cl) ==
    /\ hostHeight.revision_height < MaxHostHeight
    /\ connections' = cs
    /\ clientConnections' = [id \in ClientIds |-> ConnectionsOfClient(cs, id)]
    /\ clientStates' = cl
    /\ hostHeight' = HeightNew(hostHeight.revision_number,
                               hostHeight.revision_height + 1)
    /\ storeAt' = Append(storeAt, Snapshot(cs, cl))
    /\ UNCHANGED <<consensusStates, queryVars, task>>

\* A block whose handshake message opens a connection that is in Init.
HostStoreConnection ==
    \E id \in ConnectionIds :
        /\ connections[id].state = "Init"
        /\ Commit([connections EXCEPT ![id].state = "Open"], clientStates)

\* A block whose update_client message advances a client's latest height.
HostStoreClientState ==
    \E id \in ClientIds :
        /\ clientStates[id] # NoClientState
        /\ Commit(connections,
                  [clientStates EXCEPT ![id].latest_height = @ + 1])

\* A block without a message for these records.
HostAdvanceHeight == Commit(connections, clientStates)

(***************************************************************************)
(* The specifications.                                                     *)
(***************************************************************************)
vars == <<eventVars, storeVars, queryVars, clientVars, connVars, packetVars,
         interleavedVars>>

IdleEvents ==
    /\ event = NoEvent
    /\ abci = NoAbci
    /\ eventArgs = <<>>

IdleQuery ==
    /\ connections = [id \in ConnectionIds |-> NoConnectionEnd]
    /\ clientConnections = [id \in ClientIds |-> <<>>]
    /\ clientStates = [id \in ClientIds |-> NoClientState]
    /\ consensusStates = [id \in ClientIds |-> {}]
    /\ hostHeight = HeightNew(0, 1)
    /\ call = NoCall
    /\ resp = NoResponse
    /\ reads = <<>>

IdleClient ==
    /\ clients = [id \in LifecycleClientIds |-> NoClient]
    /\ clientConsensus = [id \in LifecycleClientIds |-> {}]
    /\ clientResult = NoClientResult

IdleInterleaved ==
    /\ task = NoTask
    /\ storeAt = <<>>

IdlePacket ==
    /\ ordering = "Ordered"
    /\ source = SourceNew
    /\ dest = DestNew
    /\ history = HistoryNew
    /\ pktResult = NoPacketResult

IdleConn ==
    /\ conns = [ch \in Chains |-> [id \in HandshakeConnectionIds |-> NoConnection]]
    /\ committed = [ch \in Chains |-> {}]
    /\ done = {}
    /\ hsResult = NoHandshakeResult

InitEvents ==
    /\ IdleEvents
    /\ IdleQuery
    /\ IdleClient
    /\ IdleConn
    /\ IdlePacket
    /\ IdleInterleaved

notEventVars == <<storeVars, queryVars, clientVars, connVars, packetVars,
    interleavedVars>>
notQueryVars == <<eventVars, clientVars, connVars, packetVars,
    interleavedVars>>
notClientVars == <<eventVars, storeVars, queryVars, connVars, packetVars,
    interleavedVars>>
notConnVars == <<eventVars, storeVars, queryVars, clientVars, packetVars,
    interleavedVars>>
notPacketVars == <<eventVars, storeVars, queryVars, clientVars, connVars,
    interleavedVars>>

NextEvents ==
    \/ EmitCreateClient /\ UNCHANGED notEventVars
    \/ EmitUpdateClient /\ UNCHANGED notEventVars
    \/ EmitClientMisbehaviour /\ UNCHANGED notEventVars
    \/ EmitUpgradeClient /\ UNCHANGED notEventVars
    \/ ConvertEvent /\ UNCHANGED notEventVars

SpecEvents == InitEvents /\ [][NextEvents]_vars

\* The query server over a host store of any bounded content.
InitQuery ==
    /\ IdleEvents
    /\ IdleClient
    /\ IdleConn
    /\ IdlePacket
    /\ IdleInterleaved
    /\ connections \in [ConnectionIds -> ConnectionEnds \cup {NoConnectionEnd}]
    /\ clientConnections =
           [id \in ClientIds |-> ConnectionsOfClient(connections, id)]
    /\ clientStates \in [ClientIds -> ClientStateValues \cup {NoClientState}]
    /\ consensusStates \in [ClientIds -> SUBSET ConsensusHeights]
    /\ hostHeight \in {HeightNew(0, h) : h \in 1..MaxHostHeight}
    /\ call = NoCall
    /\ resp = NoResponse
    /\ reads = <<>>

NextQuery ==
    \/ QueryConnection /\ UNCHANGED notQueryVars
    \/ QueryConnections /\ UNCHANGED notQueryVars
    \/ QueryClientConnections /\ UNCHANGED notQueryVars
    \/ QueryConnectionClientState /\ UNCHANGED notQueryVars
    \/ QueryConnectionConsensusState /\ UNCHANGED notQueryVars
    \/ QueryConnectionParams /\ UNCHANGED notQueryVars
    \/ QueryReturn /\ UNCHANGED notQueryVars

SpecQuery == InitQuery /\ [][NextQuery]_vars

\* The client lifecycle of one chain.
InitClient ==
    /\ IdleEvents
    /\ IdleQuery
    /\ IdleClient
    /\ IdleConn
    /\ IdlePacket
    /\ IdleInterleaved

NextClient ==
    \/ MsgCreateClient /\ UNCHANGED notClientVars
    \/ MsgUpdateClient /\ UNCHANGED notClientVars
    \/ MsgSubmitMisbehaviour /\ UNCHANGED notClientVars
    \/ MsgUpgradeClient /\ UNCHANGED notClientVars

SpecClient == InitClient /\ [][NextClient]_vars

\* The connection handshake between chains A and B.
InitConn ==
    /\ IdleEvents
    /\ IdleQuery
    /\ IdleClient
    /\ IdleConn
    /\ IdlePacket
    /\ IdleInterleaved

NextConn ==
    \/ MsgConnOpenInit /\ UNCHANGED notConnVars
    \/ MsgConnOpenTry /\ UNCHANGED notConnVars
    \/ MsgConnOpenAck /\ UNCHANGED notConnVars
    \/ MsgConnOpenConfirm /\ UNCHANGED notConnVars

SpecConn == InitConn /\ [][NextConn]_vars

\* The packet lifecycle on an Ordered or an Unordered channel.
InitPacket ==
    /\ IdleEvents
    /\ IdleQuery
    /\ IdleClient
    /\ IdleConn
    /\ ordering \in Orderings
    /\ source = SourceNew
    /\ dest = DestNew
    /\ history = HistoryNew
    /\ pktResult = NoPacketResult
    /\ IdleInterleaved

NextPacket ==
    \/ MsgSendPacket /\ UNCHANGED notPacketVars
    \/ MsgRecvPacket /\ UNCHANGED notPacketVars
    \/ MsgAcknowledgePacket /\ UNCHANGED notPacketVars
    \/ MsgTimeoutPacket /\ UNCHANGED notPacketVars
    \/ PacketReturn /\ UNCHANGED notPacketVars
    \/ DestAdvance /\ UNCHANGED notPacketVars

SpecPacket == InitPacket /\ [][NextPacket]_vars

\* The connection and connection_client_state handlers, call by call,
\* beside a host that commits blocks.
notInterleavedVars == <<eventVars, clientVars, connVars, packetVars>>

InitInterleaved ==
    /\ IdleEvents
    /\ IdleClient
    /\ IdleConn
    /\ IdlePacket
    /\ connections \in [ConnectionIds -> ConnectionEnds \cup {NoConnectionEnd}]
    /\ clientConnections =
           [id \in ClientIds |-> ConnectionsOfClient(connections, id)]
    /\ clientStates \in [ClientIds -> ClientStateValues \cup {NoClientState}]
    /\ consensusStates = [id \in ClientIds |-> {}]
    /\ hostHeight = HeightNew(0, 1)
    /\ call = NoCall
    /\ resp = NoResponse
    /\ reads = <<>>
    /\ task = NoTask
    /\ storeAt = <<Snapshot(connections, clientStates)>>

NextInterleaved ==
    \/ BeginConnection /\ UNCHANGED notInterleavedVars
    \/ BeginConnectionClientState /\ UNCHANGED notInterleavedVars
    \/ StepConnectionEnd /\ UNCHANGED notInterleavedVars
    \/ StepClientState /\ UNCHANGED notInterleavedVars
    \/ StepHostHeight /\ UNCHANGED notInterleavedVars
    \/ StepGetProof /\ UNCHANGED notInterleavedVars
    \/ StepReturn /\ UNCHANGED notInterleavedVars
    \/ HostStoreConnection /\ UNCHANGED notInterleavedVars
    \/ HostStoreClientState /\ UNCHANGED notInterleavedVars
    \/ HostAdvanceHeight /\ UNCHANGED notInterleavedVars

SpecInterleaved == InitInterleaved /\ [][NextInterleaved]_vars

(***************************************************************************)
(* Claims about the client events (SpecEvents).                            *)
(***************************************************************************)

\* The event has been converted.
Converted == event # NoEvent /\ abci # NoAbci

AttributeKeys(e) == [i \in 1..Len(e.attributes) |-> e.attributes[i].key]

\* The value of a decimal digit character, 10 for any other character.
DigitValue(ch) ==
    IF \E d \in 0..9 : AsciiChar(48 + d) = ch
    THEN CHOOSE d \in 0..9 : AsciiChar(48 + d) = ch
    ELSE 10

\* s is the decimal numeral of n: digits only, no leading zero, value n.
RECURSIVE DecValue(_)
DecValue(s) ==
    IF Len(s) = 0 THEN 0
    ELSE 10 * DecValue(SubSeq(s, 1, Len(s) - 1)) + DigitValue(s[Len(s)])

IsNumeralOf(s, n) ==
    /\ Len(s) >= 1
    /\ \A i \in 1..Len(s) : DigitValue(s[i]) < 10
    /\ (Len(s) > 1 => s[1] # "0")
    /\ DecValue(s) = n

\* s is "<era>-<index>" of height h.
IsRenderingOf(s, h) ==
    \E k \in 1..Len(s) :
        /\ s[k] = "-"
        /\ IsNumeralOf(SubSeq(s, 1, k - 1), h.revision_number)
        /\ IsNumeralOf(SubSeq(s, k + 1, Len(s)), h.revision_height)

\* C1: every converted client event has the kind of its event type, the
\* kind event_type() returns, and exactly the tabulated attribute keys in
\* the tabulated order.
C1_KindAndKeys ==
    Converted =>
        /\ abci.kind = EventType(event)
        /\ event.type = "CreateClient" =>
            /\ abci.kind = "create_client"
            /\ AttributeKeys(abci) =
                   <<"client_id", "client_type", "consensus_height">>
        /\ event.type = "UpdateClient" =>
            /\ abci.kind = "update_client"
            /\ AttributeKeys(abci) =
                   <<"client_id", "client_type", "consensus_height",
                     "consensus_heights", "header">>
        /\ event.type = "ClientMisbehaviour" =>
            /\ abci.kind = "client_misbehaviour"
            /\ AttributeKeys(abci) = <<"client_id", "client_type">>
        /\ event.type = "UpgradeClient" =>
            /\ abci.kind = "upgrade_client"
            /\ AttributeKeys(abci) =
                   <<"client_id", "client_type", "consensus_height">>

\* C1's case: an update_client event, the one with all five attributes, was
\* converted.
C1_Witness ==
    /\ Converted
    /\ event.type = "UpdateClient"
    /\ Len(abci.attributes) = 5

\* C2: the consensus_height attribute of create_client, update_client and
\* upgrade_client is "<era>-<index>" of the constructor's height, and
\* client_id and client_type are the identifiers' strings; create_client
\* of 07-tendermint-0, 07-tendermint, (0,5) emits exactly the three
\* attributes of the specification's example.
C2_HeightAndIds ==
    Converted =>
        /\ abci.attributes[1].value = event.client_id.client_id
        /\ abci.attributes[2].value = event.client_type.client_type
        /\ event.type \in {"CreateClient", "UpdateClient", "UpgradeClient"} =>
            /\ abci.attributes[3].key = "consensus_height"
            /\ IsRenderingOf(abci.attributes[3].value,
                             event.consensus_height.consensus_height)
        /\ event = CreateClientNew(ClientIdNew(Str07Tendermint, 0),
                                   Str07Tendermint, HeightNew(0, 5)) =>
            abci.attributes =
                << [key |-> "client_id",
                    value |-> <<"0", "7", "-", "t", "e", "n", "d", "e", "r",
                                "m", "i", "n", "t", "-", "0">>],
                   [key |-> "client_type",
                    value |-> <<"0", "7", "-", "t", "e", "n", "d", "e", "r",
                                "m", "i", "n", "t">>],
                   [key |-> "consensus_height",
                    value |-> <<"0", "-", "5">>] >>

\* C2's case: the create_client event of the example was converted.
C2_Witness ==
    /\ Converted
    /\ event = CreateClientNew(ClientIdNew(Str07Tendermint, 0),
                               Str07Tendermint, HeightNew(0, 5))

\* The pieces of s between the occurrences of character sep.
RECURSIVE SplitOn(_, _)
SplitOn(s, sep) ==
    IF \E i \in 1..Len(s) : s[i] = sep
    THEN LET k == CHOOSE i \in 1..Len(s) :
                      s[i] = sep /\ \A j \in 1..(i - 1) : s[j] # sep
         IN <<SubSeq(s, 1, k - 1)>> \o SplitOn(SubSeq(s, k + 1, Len(s)), sep)
    ELSE <<s>>

CountOf(s, ch) == Cardinality({i \in 1..Len(s) : s[i] = ch})

\* C3: the consensus_heights attribute of update_client is the renderings
\* of the given heights, in the order given, separated by single commas:
\* n >= 1 heights give n pieces and n-1 commas, and [(0,5),(0,7)] gives
\* "0-5,0-7".
C3_HeightsJoined ==
    (Converted /\ event.type = "UpdateClient") =>
        LET hs == event.consensus_heights.consensus_heights
            v == abci.attributes[4].value
        IN /\ abci.attributes[4].key = "consensus_heights"
           /\ Len(hs) >= 1 =>
                /\ CountOf(v, ",") = Len(hs) - 1
                /\ Len(SplitOn(v, ",")) = Len(hs)
                /\ \A i \in 1..Len(hs) :
                       IsRenderingOf(SplitOn(v, ",")[i], hs[i])
           /\ hs = <<HeightNew(0, 5), HeightNew(0, 7)>> =>
                v = <<"0", "-", "5", ",", "0", "-", "7">>

\* C3's case: an update_client event with two different heights, the larger
\* first, was converted.
C3_Witness ==
    /\ Converted
    /\ event.type = "UpdateClient"
    /\ event.consensus_heights.consensus_heights =
           <<HeightNew(1, 10), HeightNew(0, 5)>>

\* The value of a lowercase hexadecimal digit, 16 for any other character.
HexValue(ch) ==
    LET digits == <<"0", "1", "2", "3", "4", "5", "6", "7", "8", "9",
                    "a", "b", "c", "d", "e", "f">>
    IN IF \E d \in 1..16 : digits[d] = ch
       THEN (CHOOSE d \in 1..16 : digits[d] = ch) - 1
       ELSE 16

\* The bytes a hexadecimal string of even length decodes to.
HexDecode(s) ==
    [i \in 1..(Len(s) \div 2) |->
        16 * HexValue(s[2 * i - 1]) + HexValue(s[2 * i])]

\* C4: the header attribute of update_client is the lowercase hexadecimal
\* encoding of the header bytes: rendering does not fail, the value has two
\* characters of 0-9a-f per byte and decodes to the same bytes in the same
\* order.
C4_HeaderHex ==
    (Converted /\ event.type = "UpdateClient") =>
        LET b == event.header.header
            a == abci.attributes[5]
        IN /\ a # PanicAttribute
           /\ a.key = "header"
           /\ Len(a.value) = 2 * Len(b)
           /\ \A i \in 1..Len(a.value) : HexValue(a.value[i]) < 16
           /\ HexDecode(a.value) = b

\* C4's case: a header with a byte below 16 and a byte whose digits are
\* both letters was converted.
C4_Witness ==
    /\ Converted
    /\ event.type = "UpdateClient"
    /\ event.header.header = <<10, 175>>
    /\ abci.attributes[5].value = <<"0", "a", "a", "f">>

(***************************************************************************)
(* Claims about the connection query service (SpecQuery).                  *)
(***************************************************************************)
ProofCarrying ==
    {"connection", "client_connections", "connection_client_state",
     "connection_consensus_state"}

\* The calls of one context method among those the handler made.
ReadsOf(name) ==
    LET IsCall(r) == r.call = name
    IN SelectSeq(reads, IsCall)

\* The client recorded in the connection end the request names.
ClientOfRequest == connections[call.request.connection_id].client_id

\* The store path of the record each proof-carrying lookup returns.
ExpectedProofPath ==
    CASE call.rpc = "connection" ->
            [path |-> "Connection",
             connection_id |-> call.request.connection_id]
      [] call.rpc = "client_connections" ->
            [path |-> "ClientConnection", client_id |-> call.request.client_id]
      [] call.rpc = "connection_client_state" ->
            [path |-> "ClientState", client_id |-> ClientOfRequest]
      [] call.rpc = "connection_consensus_state" ->
            [path |-> "ClientConsensusState", client_id |-> ClientOfRequest,
             height |-> [revision_number |-> call.request.revision_number,
                         revision_height |-> call.request.revision_height]]

\* The response carries the record stored at the expected path.
ReturnsStoredRecord ==
    CASE call.rpc = "connection" ->
            resp.body.connection = connections[call.request.connection_id]
      [] call.rpc = "client_connections" ->
            resp.body.connection_paths =
                clientConnections[call.request.client_id]
      [] call.rpc = "connection_client_state" ->
            /\ resp.body.identified_client_state.client_state =
                   clientStates[ClientOfRequest]
            /\ clientStates[ClientOfRequest] # NoClientState
      [] call.rpc = "connection_consensus_state" ->
            /\ ExpectedProofPath.height \in consensusStates[ClientOfRequest]
            /\ resp.body.consensus_state =
                   [root |-> <<ClientOfRequest, ExpectedProofPath.height>>]

\* C5: a successful response of a proof-carrying lookup rests on one read
\* of the host height h and one get_proof call, made at h for the store
\* path of the record returned; its proof is the result of that call and
\* its proof_height is h.
C5_ProofAtHostHeight ==
    (resp.code = "Ok" /\ call.rpc \in ProofCarrying) =>
        LET hs == ReadsOf("host_height")
            ps == ReadsOf("get_proof")
        IN /\ Len(hs) = 1
           /\ Len(ps) = 1
           /\ hs[1].ret.ok
           /\ hs[1].ret.value = hostHeight
           /\ ps[1].ret.ok
           /\ ps[1].arg.height = hs[1].ret.value
           /\ ps[1].arg.path = ExpectedProofPath
           /\ resp.body.proof = ps[1].ret.value
           /\ resp.body.proof = [proves |-> ExpectedProofPath, at |-> hostHeight]
           /\ resp.body.proof_height = hs[1].ret.value
           /\ ReturnsStoredRecord

\* C5's case: a consensus state was returned for a requested height that is
\* not the host height.
C5_Witness ==
    /\ resp.code = "Ok"
    /\ call.rpc = "connection_consensus_state"
    /\ call.request.revision_height = 1
    /\ hostHeight.revision_height = 2

ReadAccessors ==
    {"connection_end", "connection_ends", "client_connection_ends",
     "client_state", "consensus_state", "host_height", "get_proof",
     "max_expected_time_per_block"}

\* C6: no step of the query service, a successful call, a failing call or a
\* return, changes the host store, and a handler calls only read accessors
\* and get_proof.
C6_ReadOnly ==
    [][ /\ UNCHANGED storeVars
        /\ \A i \in 1..Len(reads') : reads'[i].call \in ReadAccessors ]_vars

\* C6's case: connection_client_state answered from a store holding the
\* connection and its client state.
C6_Witness ==
    /\ resp.code = "Ok"
    /\ call.rpc = "connection_client_state"
    /\ clientStates[ClientOfRequest] # NoClientState

(***************************************************************************)
(* Claims about the client lifecycle (SpecClient).                         *)
(***************************************************************************)

\* C8: once a client is Frozen it stays Frozen under every message, and an
\* update_client for it fails with ClientError and leaves the client states
\* and the consensus states unchanged.
C8_FrozenIsPermanent ==
    [][ \A id \in LifecycleClientIds :
            clients[id].status = "Frozen" =>
                /\ clients'[id].status = "Frozen"
                /\ (clientResult'.op = "update_client"
                        /\ clientResult'.client_id = id) =>
                    /\ clientResult'.result = "ClientError"
                    /\ UNCHANGED <<clients, clientConsensus>> ]_vars

\* C8's case: misbehaviour froze a client and an update_client for it was
\* then rejected.
C8_Witness ==
    /\ clientResult.op = "update_client"
    /\ clientResult.result = "ClientError"
    /\ clients[clientResult.client_id].status = "Frozen"

(***************************************************************************)
(* Claims about the connection handshake.                                  *)
(***************************************************************************)
StateRank(state) ==
    CASE state = "None" -> 0
      [] state = "Init" -> 1
      [] state = "TryOpen" -> 2
      [] state = "Open" -> 3

\* The counterparty has at some time stored connection cp in `state`, and,
\* when id is not "none", as the counterpart of connection id.
CounterpartyRecord(chain, cp, state, id) ==
    \E f \in committed[Counterparty(chain)] :
        /\ f.connection_id = cp
        /\ f.state = state
        /\ id # "none" => f.counterparty_connection = id

\* The steps behind an Open end: the initiating end is opened by Ack, after
\* its own Init and the counterparty's Try; the other end is opened by
\* Confirm, after the counterparty's Init, its own Try and the
\* counterparty's Ack.
OpenedInOrder(chain, id) ==
    LET cp == conns[chain][id].counterparty_connection
        other == Counterparty(chain)
    IN \/ /\ Step("Init", chain, id, "none") \in done
          /\ Step("Try", other, cp, id) \in done
          /\ Step("Ack", chain, id, cp) \in done
          /\ Step("Confirm", chain, id, cp) \notin done
       \/ /\ Step("Init", other, cp, "none") \in done
          /\ Step("Try", chain, id, cp) \in done
          /\ Step("Ack", other, cp, id) \in done
          /\ Step("Confirm", chain, id, cp) \in done

\* A step is executed only when the steps before it have been executed.
ExecutedInOrder ==
    \A s \in done' \ done :
        LET other == Counterparty(s.chain)
            id == s.connection_id
            cp == s.counterparty_connection
        IN /\ s.step = "Try" => Step("Init", other, cp, "none") \in done
           /\ s.step = "Ack" =>
                /\ Step("Init", s.chain, id, "none") \in done
                /\ Step("Try", other, cp, id) \in done
           /\ s.step = "Confirm" =>
                /\ Step("Try", s.chain, id, cp) \in done
                /\ Step("Ack", other, cp, id) \in done

\* A message that meets no record of the step before it, or a connection
\* that is not in the state before it, gets HandshakeStateError; a message
\* that fails writes nothing.
RejectedOutOfOrder ==
    LET m == hsResult'.step
        local == conns[m.chain][m.connection_id].state
    IN /\ hsResult'.result # "Ok" => UNCHANGED <<conns, committed, done>>
       /\ (/\ m.step = "Try"
           /\ ~CounterpartyRecord(m.chain, m.counterparty_connection, "Init", "none"))
            => hsResult'.result = "HandshakeStateError"
       /\ (/\ m.step = "Ack"
           /\ \/ local # "Init"
              \/ ~CounterpartyRecord(m.chain, m.counterparty_connection,
                                     "TryOpen", m.connection_id))
            => hsResult'.result = "HandshakeStateError"
       /\ (/\ m.step = "Confirm"
           /\ \/ local # "TryOpen"
              \/ ~CounterpartyRecord(m.chain, m.counterparty_connection,
                                     "Open", m.connection_id))
            => hsResult'.result = "HandshakeStateError"

\* The state of a ConnectionEnd never goes back.
NeverRegresses ==
    \A chain \in Chains, id \in HandshakeConnectionIds :
        StateRank(conns'[chain][id].state) >= StateRank(conns[chain][id].state)

\* C7: a ConnectionEnd is Open only after the handshake steps before it were
\* executed in order (Init, Try, Ack for the initiating end, which Ack opens;
\* Init, Try, Ack, Confirm for the other end, so that a connection Open at
\* both ends has seen all four steps in that order); an Ack without a
\* counterparty TryOpen record, or any step against a connection not in the
\* state before it, returns HandshakeStateError and leaves the state
\* unchanged; the state of a ConnectionEnd never regresses, whatever messages
\* are duplicated or reordered.
C7_HandshakeOrder ==
    /\ [](\A chain \in Chains, id \in HandshakeConnectionIds :
            conns[chain][id].state = "Open" => OpenedInOrder(chain, id))
    /\ [][ExecutedInOrder /\ RejectedOutOfOrder /\ NeverRegresses]_vars

\* The connection is Open at both ends and an Ack submitted again for it has
\* just been rejected.
C7_Witness ==
    /\ hsResult.step.step = "Ack"
    /\ hsResult.result = "HandshakeStateError"
    /\ LET m == hsResult.step
       IN /\ conns[m.chain][m.connection_id].state = "Open"
          /\ conns[m.chain][m.connection_id].counterparty_connection
                = m.counterparty_connection
          /\ conns[Counterparty(m.chain)][m.counterparty_connection].state = "Open"
          /\ Step("Confirm", Counterparty(m.chain), m.counterparty_connection,
                  m.connection_id) \in done

(***************************************************************************)
(* Claims about the packet lifecycle.                                      *)
(***************************************************************************)
\* What recv_packet writes on the destination chain.
ReceiveState == <<dest.next_recv, dest.receipts, dest.acks, dest.received_at>>

\* The receive counter, or the receipts, tell which sequences were received.
ReceivedOnce(seq) ==
    /\ history.received[seq] <= 1
    /\ history.received[seq] = 1 <=>
          IF ordering = "Ordered" THEN seq < dest.next_recv
          ELSE seq \in dest.receipts

\* A recv_packet out of sequence on an Ordered channel, or for a sequence
\* with a receipt on an Unordered one, is rejected and writes nothing.
RecvRejected ==
    LET m == pktResult'
    IN (/\ m.op = "recv_packet"
        /\ \/ ordering = "Ordered" /\ m.seq # dest.next_recv
           \/ ordering = "Unordered" /\ m.seq \in dest.receipts)
        => /\ m.result \in {"PacketError", "ProofVerificationError"}
           /\ ReceiveState' = ReceiveState
           /\ UNCHANGED <<source, history>>

\* C9: on an Ordered channel recv_packet with a sequence other than the next
\* expected one is rejected and writes neither the receive counter nor an
\* acknowledgement; on an Unordered channel recv_packet for a sequence that
\* has a receipt is rejected; however the relayer duplicates or reorders
\* the messages, each sequence of the channel is received at most once.
C9_ReceivedAtMostOnce ==
    /\ [](\A seq \in Sequences : ReceivedOnce(seq))
    /\ [][RecvRejected]_vars

\* A packet that was received is submitted again, and rejected.
C9_Witness ==
    /\ pktResult.op = "recv_packet"
    /\ pktResult.result = "PacketError"
    /\ history.received[pktResult.seq] = 1
    /\ pktResult.seq \in dest.acks

\* A commitment goes away only by a successful acknowledge_packet or
\* timeout_packet for its sequence, which is recorded as its one clearing.
ClearedByAckOrTimeout ==
    \A seq \in source.commitments \ source'.commitments :
        /\ pktResult'.seq = seq
        /\ pktResult'.op \in {"acknowledge_packet", "timeout_packet"}
        /\ pktResult'.result = "Ok"
        /\ history'.cleared[seq] = <<pktResult'.op>>

\* A successful acknowledge_packet clears the commitment of a packet that
\* was sent and received; one for a sequence without a commitment fails
\* with PacketError and changes nothing.
AcknowledgeOnce ==
    LET m == pktResult'
    IN m.op = "acknowledge_packet" =>
        /\ m.result = "Ok" =>
            /\ m.seq \in source.commitments
            /\ m.seq \notin source'.commitments
            /\ history.received[m.seq] = 1
        /\ m.seq \notin source.commitments =>
            /\ m.result = "PacketError"
            /\ UNCHANGED <<ordering, source, dest, history>>

\* C10: send_packet, recv_packet, acknowledge_packet clears the source's
\* PacketCommitment exactly once; an acknowledge_packet repeated for the
\* same sequence fails with PacketError, the commitment being absent, and
\* changes nothing; no acknowledge and timeout operations, in any order,
\* clear the same commitment twice.
C10_ClearedExactlyOnce ==
    /\ [](\A seq \in Sequences :
            /\ Len(history.cleared[seq]) <= 1
            /\ seq \in source.commitments => history.cleared[seq] = <<>>
            /\ history.cleared[seq] # <<>> => seq < source.next_send)
    /\ [][ClearedByAckOrTimeout /\ AcknowledgeOnce]_vars

\* A packet was sent, received and acknowledged, and the acknowledge_packet
\* submitted again for it has failed.
C10_Witness ==
    /\ pktResult.op = "acknowledge_packet"
    /\ pktResult.result = "PacketError"
    /\ history.cleared[pktResult.seq] = <<"acknowledge_packet">>
    /\ history.received[pktResult.seq] = 1
    /\ pktResult.seq \notin source.commitments

\* The destination's committed state at some height at or after the timeout
\* of the packet sent with seq shows that the packet has not been received.
TimedOut(seq) ==
    \E h \in DestHeights :
        /\ h >= source.timeouts[seq]
        /\ AbsenceProved(seq, h)

\* What timeout_packet does, by its result.
TimeoutOutcome ==
    LET m == pktResult'
    IN m.op = "timeout_packet" =>
        /\ m.result \in {"Ok", "PacketError", "ProofVerificationError"}
        /\ m.result = "Ok" =>
            /\ m.seq \in source.commitments
            /\ TimedOut(m.seq)
            /\ dest.height > source.timeouts[m.seq]
            /\ source'.commitments = source.commitments \ {m.seq}
            /\ ordering = "Ordered" => source'.channel_state = "Closed"
            /\ ordering = "Unordered" => UNCHANGED source.channel_state
        /\ m.result # "Ok" => UNCHANGED <<ordering, source, dest, history>>
        /\ ~TimedOut(m.seq) => m.result # "Ok"

ConnectionReadOrder == <<"connection_end", "host_height", "get_proof">>
ConnectionFailureMessages ==
    <<"Connection end not found for connection", "Current height not found",
      "Proof not found for connection path">>

\* The handler stopped at the first read that failed.
StoppedAtFirstFailure(order) ==
    /\ Len(reads) \in 1..Len(order)
    /\ \A i \in 1..Len(reads) : reads[i].call = order[i]
    /\ \A i \in 1..(Len(reads) - 1) : reads[i].ret.ok
    /\ Len(reads) < Len(order) => ~reads[Len(reads)].ret.ok

\* C12: the `connection` lookup parses the connection id, reads the
\* connection end, reads the host height and gets the proof, in that order,
\* and returns the first failure and nothing else: InvalidArgument, before
\* any read of the store, for a malformed id; NotFound for an unknown
\* connection, for an unavailable host height and for an unavailable proof,
\* the connection end then not being returned.  client_connections too
\* answers a malformed client id with InvalidArgument before any read.
C12_FirstFailureInOrder ==
    /\ call.rpc = "connection" =>
        LET id == call.request.connection_id
            last == reads[Len(reads)]
        IN IF id \notin ConnectionIds
           THEN /\ resp.code = "InvalidArgument"
                /\ resp.message = "Invalid connection id"
                /\ resp.body = NoBody
                /\ reads = <<>>
           ELSE /\ StoppedAtFirstFailure(ConnectionReadOrder)
                /\ reads[1].arg = id
                /\ reads[1].ret.ok <=> connections[id] # NoConnectionEnd
                /\ IF last.ret.ok
                   THEN /\ resp.code = "Ok"
                        /\ resp.body.connection = connections[id]
                        /\ resp.body.proof = last.ret.value
                   ELSE /\ resp.code = "NotFound"
                        /\ resp.message = ConnectionFailureMessages[Len(reads)]
                        /\ resp.body = NoBody
    /\ (call.rpc = "client_connections" /\ call.request.client_id \notin ClientIds) =>
        /\ resp.code = "InvalidArgument"
        /\ resp.message = "Invalid client id"
        /\ resp.body = NoBody
        /\ reads = <<>>

\* The connection end was read and the host height too, the proof was not
\* available: NotFound, and the connection end is not returned.
C12_Witness ==
    /\ call.rpc = "connection"
    /\ resp.code = "NotFound"
    /\ Len(reads) = 3
    /\ reads[1].ret.ok /\ reads[2].ret.ok /\ ~reads[3].ret.ok
    /\ resp.body = NoBody

\* C13: in every successful connection_client_state response the client_id,
\* the client state and the proof are those of one client, the local client
\* recorded in the connection end asked for: the client state is the one
\* stored for that client and the proof was asked for that client's
\* ClientState path; when that client has no state the call fails with
\* NotFound and returns nothing.
C13_SameClient ==
    (/\ call.rpc = "connection_client_state"
     /\ call.request.connection_id \in ConnectionIds
     /\ connections[call.request.connection_id] # NoConnectionEnd) =>
        LET client == ClientOfRequest
            cs == ReadsOf("client_state")
            ps == ReadsOf("get_proof")
        IN /\ Len(cs) = 1
           /\ cs[1].arg = client
           /\ clientStates[client] = NoClientState =>
                /\ resp.code = "NotFound"
                /\ resp.message = "Client state not found for connection"
                /\ resp.body = NoBody
                /\ ~cs[1].ret.ok
                /\ ps = <<>>
           /\ resp.code = "Ok" =>
                /\ resp.body.identified_client_state.client_id = client
                /\ resp.body.identified_client_state.client_state
                        = clientStates[client]
                /\ clientStates[client] # NoClientState
                /\ cs[1].ret = Returned(clientStates[client])
                /\ Len(ps) = 1
                /\ ps[1].arg.path = PathClientState(client)
                /\ resp.body.proof = ps[1].ret.value
                /\ resp.body.proof.proves = PathClientState(client)

\* The client state of the second client was returned, while the first
\* client has a state too.
C13_Witness ==
    /\ call.rpc = "connection_client_state"
    /\ resp.code = "Ok"
    /\ resp.body.identified_client_state.client_id = "07-tendermint-1"
    /\ clientStates["07-tendermint-0"] # NoClientState

\* The height of a connection_consensus_state request.
RequestedHeight ==
    HeightNew(call.request.revision_number, call.request.revision_height)

\* C14: connection_consensus_state returns the consensus state stored for
\* the connection's client at the requested height, with the proof and
\* proof_height taken at the host height and not at the requested one; a
\* request with revision_height 0 gets InvalidArgument only when the
\* connection exists, the connection being looked up (NotFound) before the
\* height is validated; a valid height without a stored consensus state
\* gets NotFound.
C14_ConsensusStateLookup ==
    (call.rpc = "connection_consensus_state"
        /\ call.request.connection_id \in ConnectionIds) =>
        LET id == call.request.connection_id
            known == connections[id] # NoConnectionEnd
            valid == call.request.revision_height # 0
            stored == RequestedHeight \in consensusStates[ClientOfRequest]
        IN /\ ~known =>
                /\ resp.code = "NotFound"
                /\ resp.message = "Connection end not found for connection"
           /\ (known /\ ~valid) =>
                /\ resp.code = "InvalidArgument"
                /\ resp.message = "Invalid height"
                /\ ReadsOf("consensus_state") = <<>>
           /\ (known /\ valid /\ ~stored) =>
                /\ resp.code = "NotFound"
                /\ resp.message = "Consensus state not found for connection"
           /\ resp.code = "InvalidArgument" => (known /\ ~valid)
           /\ resp.code \in {"Ok", "InvalidArgument", "NotFound"}
           /\ resp.code = "NotFound" => resp.body = NoBody
           /\ resp.code = "Ok" =>
                /\ known /\ valid /\ stored
                /\ resp.body.consensus_state
                        = ConsensusStateAt(ClientOfRequest, RequestedHeight)
                /\ resp.body.client_id = ClientOfRequest
                /\ resp.body.proof.proves
                        = ClientConsensusStatePathNew(ClientOfRequest, RequestedHeight)
                /\ resp.body.proof.at = hostHeight
                /\ resp.body.proof_height = hostHeight

\* A request with revision_height 0 for a connection the host does not
\* have: NotFound, not InvalidArgument.
C14_Witness ==
    /\ call.rpc = "connection_consensus_state"
    /\ call.request.connection_id \in ConnectionIds
    /\ connections[call.request.connection_id] = NoConnectionEnd
    /\ call.request.revision_height = 0
    /\ resp.code = "NotFound"

(***************************************************************************)
(* Claims about the query handlers beside a committing host.               *)
(***************************************************************************)
\* C15: when blocks are committed while a query handler runs, the record of
\* a successful response is the record stored at the response's
\* proof_height: the record read and the proof returned describe the same
\* state of the store.
C15_RecordAtProofHeight ==
    (/\ resp.code = "Ok"
     /\ call.rpc \in {"connection", "connection_client_state"}) =>
        LET proved == storeAt[resp.body.proof_height.revision_height]
            proved_end == proved.connections[call.request.connection_id]
        IN IF call.rpc = "connection"
           THEN resp.body.connection = proved_end
           ELSE resp.body.identified_client_state.client_state
                    = proved.clientStates[proved_end.client_id]

(***************************************************************************)
(* Claims about the lookups without a proof.                               *)
(***************************************************************************)
\* The connection ends the host stores, each with its identifier.
StoredConnectionEnds ==
    {[connection_id |-> id, connection_end |-> connections[id]] :
        id \in {c \in ConnectionIds : connections[c] # NoConnectionEnd}}

\* C16: `connections` returns every connection end of the host, with the
\* host height as height and no pagination, and fails with NotFound when
\* the list cannot be read, which is looked at first, or when the host
\* height cannot be read; `connection_params` never fails, reads no record
\* and no height, and returns max_expected_time_per_block in whole seconds,
\* the part below a second dropped.
C16_LookupsWithoutProof ==
    /\ call.rpc = "connections" =>
        /\ Len(reads) \in 1..2
        /\ reads[1].call = "connection_ends"
        /\ ~reads[1].ret.ok =>
            /\ Len(reads) = 1
            /\ resp.code = "NotFound"
            /\ resp.message = "Connections not found"
            /\ resp.body = NoBody
        /\ reads[1].ret.ok =>
            /\ Len(reads) = 2
            /\ reads[2].call = "host_height"
            /\ ~reads[2].ret.ok =>
                /\ resp.code = "NotFound"
                /\ resp.message = "Current height not found"
                /\ resp.body = NoBody
            /\ reads[2].ret.ok =>
                /\ resp.code = "Ok"
                /\ DOMAIN resp.body = {"connections", "pagination", "height"}
                /\ {resp.body.connections[i] : i \in DOMAIN resp.body.connections}
                        = StoredConnectionEnds
                /\ Len(resp.body.connections) = Cardinality(StoredConnectionEnds)
                /\ resp.body.pagination = "None"
                /\ resp.body.height = hostHeight
    /\ call.rpc = "connection_params" =>
        /\ resp.code = "Ok"
        /\ Len(reads) = 1
        /\ reads[1].call = "max_expected_time_per_block"
        /\ LET millis == reads[1].ret.value
               secs == resp.body.params.max_expected_time_per_block
           IN /\ secs * 1000 <= millis
              /\ millis < (secs + 1) * 1000

\* All the connection ends of a host that stores two are returned, at host
\* height 2.
C16_Witness ==
    /\ call.rpc = "connections"
    /\ resp.code = "Ok"
    /\ Len(resp.body.connections) = 2
    /\ resp.body.height = HeightNew(0, 2)

(***************************************************************************)
(* Claims about the arguments of the update_client event.                  *)
(***************************************************************************)
\* C17: in the update_client event each attribute value depends only on
\* its own constructor argument: every attribute is the conversion of its
\* own argument alone; the consensus_height value is the rendering of the
\* consensus_height argument whatever the consensus_heights list is (the
\* height need not be in the list), an empty list renders as the empty
\* string and the event still has five attributes; the accessors
\* client_id(), client_type(), consensus_height(), consensus_heights() and
\* header() return the values passed to the constructor.
C17_OwnArgumentOnly ==
    event.type = "UpdateClient" =>
        LET id == eventArgs[1]
            ty == eventArgs[2]
            h == eventArgs[3]
            hs == eventArgs[4]
            hdr == eventArgs[5]
            a == abci.attributes
        IN /\ UpdateClientClientId(event) = id
           /\ UpdateClientClientType(event) = ty
           /\ UpdateClientConsensusHeight(event) = h
           /\ UpdateClientConsensusHeights(event) = hs
           /\ UpdateClientHeader(event) = hdr
           /\ Converted =>
                /\ Len(a) = 5
                /\ a[1] = ClientIdAttributeInto([client_id |-> id])
                /\ a[2] = ClientTypeAttributeInto([client_type |-> ty])
                /\ a[3] = ConsensusHeightAttributeInto([consensus_height |-> h])
                /\ a[4] = ConsensusHeightsAttributeInto([consensus_heights |-> hs])
                /\ a[5] = HeaderAttributeInto([header |-> hdr])
                /\ a[1].value = id
                /\ a[2].value = ty
                /\ IsRenderingOf(a[3].value, h)
                /\ hs = <<>> => a[4].value = <<>>

\* An update_client event with an empty list of heights, which therefore
\* does not hold its consensus_height, was converted.
C17_Witness ==
    /\ Converted
    /\ event.type = "UpdateClient"
    /\ eventArgs[3] = HeightNew(1, 10)
    /\ eventArgs[4] = <<>>
    /\ abci.attributes[3].value = <<"1", "-", "1", "0">>
    /\ abci.attributes[4].value = <<>>
    /\ Len(abci.attributes) = 5

=============================================================================
